---- MODULE Spec2Model ----
(***************************************************************************)
(* Model of the WhichGLP recommendation engine                             *)
(* (src/apps/backend/ml/recommender.py), of the experiences cache of the   *)
(* ML API service (src/apps/ml/api.py) and of the comment-depth and        *)
(* content-filter functions of the data ingestion (src/apps/data-ingestion)*)
(*                                                                         *)
(* Numbers.  The code computes in binary floating point; the model         *)
(* computes in fixed point:                                                *)
(*   - weights, BMI, ages and percentages of a feature vector are held in  *)
(*     tenths (1.0 is 10);                                                 *)
(*   - a similarity is held in ten-thousandths (1.0 is 10000);             *)
(*   - aggregated statistics are exact fractions <<numerator, denominator>>*)
(*     with a positive denominator.                                        *)
(* A missing value (None / NaN) is the empty sequence <<>>, a present      *)
(* value v is <<v>>.  A string that the code transforms (a side-effect     *)
(* name, a weight unit) is a sequence of one-character strings.            *)
(***************************************************************************)
EXTENDS Integers, Sequences, FiniteSets, TLC

(***************************************************************************)
(* State                                                                   *)
(***************************************************************************)
VARIABLES
    experiences_df,       \* the caller's table: [columns, rows]
    k,                    \* self.k
    min_similar_users,    \* self.min_similar_users
    weights,              \* self.weights
    count_ties,           \* how the platform's sort orders equal counts
    calls,                \* the calls of recommend made so far, oldest
                          \* first, each [user, user_after, result]
    neighbours,           \* a neighbour set handed to _aggregate_outcomes
    aggregated,           \* what _aggregate_outcomes returned for it
    experiences_cache,    \* api.py's _experiences_cache: <<>> or <<table>>
    database,             \* the rows of mv_experiences_denormalized
    comment,              \* calculate_comment_depth: its argument
    parent,               \* calculate_comment_depth: the local `parent'
    depth,                \* calculate_comment_depth: the local `depth'
    iterations,           \* calculate_comment_depth: the local `iterations'
    pc                    \* calculate_comment_depth: where the call stands

vars == <<experiences_df, k, min_similar_users, weights, count_ties, calls,
          neighbours, aggregated, experiences_cache, database,
          comment, parent, depth, iterations, pc>>

\* the state of the API service
api_vars == <<experiences_cache, database>>

\* the state of a call of calculate_comment_depth
parser_vars == <<comment, parent, depth, iterations, pc>>

\* no object at all
Nothing == <<"none", 0>>

\* no call of calculate_comment_depth under way
ParserIdle ==
    /\ comment = Nothing
    /\ parent = Nothing
    /\ depth = 1
    /\ iterations = 0
    /\ pc = "idle"

\* the API module as loaded (_experiences_cache = None), over a view that
\* has no rows yet
ApiIdle ==
    /\ experiences_cache = <<>>
    /\ database = <<>>

(***************************************************************************)
(* Arithmetic helpers                                                      *)
(***************************************************************************)

\* Python's round(): nearest integer to n/d (d > 0), ties to the even one.
RoundHalfEven(n, d) ==
    LET q == n \div d
        r == n % d
    IN  IF 2 * r < d THEN q
        ELSE IF 2 * r > d THEN q + 1
        ELSE IF q % 2 = 0 THEN q ELSE q + 1

RECURSIVE IsqrtBetween(_, _, _)
IsqrtBetween(x, lo, hi) ==
    IF lo >= hi THEN lo
    ELSE LET mid == (lo + hi + 1) \div 2
         IN  IF mid * mid <= x THEN IsqrtBetween(x, mid, hi)
             ELSE IsqrtBetween(x, lo, mid - 1)

\* floor(sqrt(x)) for 0 <= x < 2^31
Isqrt(x) == IsqrtBetween(x, 0, 46340)

RECURSIVE SumSeq(_)
SumSeq(s) == IF s = <<>> THEN 0 ELSE Head(s) + SumSeq(Tail(s))

MaxSeq(s) == CHOOSE x \in {s[i] : i \in DOMAIN s} : \A j \in DOMAIN s : s[j] <= x
MinSeq(s) == CHOOSE x \in {s[i] : i \in DOMAIN s} : \A j \in DOMAIN s : x <= s[j]

(***************************************************************************)
(* Strings: str.lower(), str.strip(), str.title()                          *)
(***************************************************************************)
LowerLetters == <<"a", "b", "c", "d", "e", "f", "g", "h", "i", "j", "k", "l", "m",
                  "n", "o", "p", "q", "r", "s", "t", "u", "v", "w", "x", "y", "z">>
UpperLetters == <<"A", "B", "C", "D", "E", "F", "G", "H", "I", "J", "K", "L", "M",
                  "N", "O", "P", "Q", "R", "S", "T", "U", "V", "W", "X", "Y", "Z">>
Whitespace   == {" "}

IsLowerCh(c) == \E i \in DOMAIN LowerLetters : LowerLetters[i] = c
IsUpperCh(c) == \E i \in DOMAIN UpperLetters : UpperLetters[i] = c
IsCased(c)   == IsLowerCh(c) \/ IsUpperCh(c)

LowerCh(c) ==
    IF IsUpperCh(c)
    THEN LowerLetters[CHOOSE i \in DOMAIN UpperLetters : UpperLetters[i] = c]
    ELSE c

UpperCh(c) ==
    IF IsLowerCh(c)
    THEN UpperLetters[CHOOSE i \in DOMAIN LowerLetters : LowerLetters[i] = c]
    ELSE c

\* str.lower()
StrLower(s) == [i \in DOMAIN s |-> LowerCh(s[i])]

\* str.strip(): drop leading and trailing whitespace
RECURSIVE LStrip(_)
LStrip(s) ==
    IF s # <<>> /\ Head(s) \in Whitespace THEN LStrip(Tail(s)) ELSE s

RECURSIVE RStrip(_)
RStrip(s) ==
    IF s # <<>> /\ s[Len(s)] \in Whitespace
    THEN RStrip(SubSeq(s, 1, Len(s) - 1))
    ELSE s

StrStrip(s) == RStrip(LStrip(s))

\* str.title(): a cased character is upper-cased when the character before
\* it is not cased (or there is none), lower-cased otherwise
StrTitle(s) ==
    [i \in DOMAIN s |->
        IF i > 1 /\ IsCased(s[i - 1]) THEN LowerCh(s[i]) ELSE UpperCh(s[i])]

(***************************************************************************)
(* Feature vectorizer                                                      *)
(***************************************************************************)
KG  == <<"k", "g">>
LBS == <<"l", "b", "s">>

\* the unit compared as written, without lower()
ConvertWeightToLbsAsWritten(weight, unit) ==
    IF unit = KG
    THEN RoundHalfEven(weight * 220462, 100000)
    ELSE weight

\* _convert_weight_to_lbs: weight in tenths of `unit`, result in tenths of lb
ConvertWeightToLbs(weight, unit) ==
    IF StrLower(unit) = KG
    THEN RoundHalfEven(weight * 220462, 100000)
    ELSE weight

\* _calculate_bmi: (weight_lbs / 67^2) * 703, tenths in, tenths out
CalculateBmi(weight_lbs) == RoundHalfEven(weight_lbs * 703, 67 * 67)

Flag(b) == IF b THEN 10 ELSE 0

\* _extract_user_features: the 12 features, in tenths
ExtractUserFeatures(user) ==
    LET weight_lbs == ConvertWeightToLbs(user.current_weight, user.weight_unit)
        goal_lbs   == ConvertWeightToLbs(user.goal_weight, user.weight_unit)
        weight_loss_goal_pct ==
            RoundHalfEven((weight_lbs - goal_lbs) * 1000, weight_lbs)
        bmi == CalculateBmi(weight_lbs)
    IN  << user.age * 10,
           Flag(user.sex = "male"),
           Flag(user.sex = "female"),
           weight_lbs,
           bmi,
           weight_loss_goal_pct,
           Flag(user.has_insurance),
           Flag("diabetes" \in user.comorbidities),
           Flag("pcos" \in user.comorbidities),
           Flag("hypertension" \in user.comorbidities),
           Flag("sleep apnea" \in user.comorbidities),
           Flag("hypothyroidism" \in user.comorbidities) >>

\* safe_float(value, default): value is <<>> (None / NaN) or <<v>>; tenths out
SafeFloat(value, default) ==
    IF value = <<>> THEN default * 10 ELSE value[1] * 10

\* the record's features in another order: the weight-loss percentage
\* ahead of the weight and the BMI
ExtractExperienceFeaturesReordered(experience) ==
    LET beginning_weight_lbs == SafeFloat(experience.beginning_weight_lbs, 0)
        weight_loss_pct == SafeFloat(experience.weight_loss_percentage, 0)
        bmi == IF beginning_weight_lbs > 0
               THEN CalculateBmi(beginning_weight_lbs) ELSE 0
        comorbidities == IF experience.comorbidities = <<>> THEN {}
                         ELSE experience.comorbidities[1]
    IN  << SafeFloat(experience.age, 30),
           Flag(experience.sex = <<"male">>),
           Flag(experience.sex = <<"female">>),
           weight_loss_pct,
           beginning_weight_lbs,
           bmi,
           Flag(experience.has_insurance = <<TRUE>>),
           Flag("diabetes" \in comorbidities),
           Flag("pcos" \in comorbidities),
           Flag("hypertension" \in comorbidities),
           Flag("sleep apnea" \in comorbidities),
           Flag("hypothyroidism" \in comorbidities) >>

\* _extract_experience_features: the 12 features, in tenths
ExtractExperienceFeatures(experience) ==
    LET beginning_weight_lbs == SafeFloat(experience.beginning_weight_lbs, 0)
        weight_loss_pct == SafeFloat(experience.weight_loss_percentage, 0)
        bmi == IF beginning_weight_lbs > 0
               THEN CalculateBmi(beginning_weight_lbs) ELSE 0
        comorbidities == IF experience.comorbidities = <<>> THEN {}
                         ELSE experience.comorbidities[1]
    IN  << SafeFloat(experience.age, 30),
           Flag(experience.sex = <<"male">>),
           Flag(experience.sex = <<"female">>),
           beginning_weight_lbs,
           bmi,
           weight_loss_pct,
           Flag(experience.has_insurance = <<TRUE>>),
           Flag("diabetes" \in comorbidities),
           Flag("pcos" \in comorbidities),
           Flag("hypertension" \in comorbidities),
           Flag("sleep apnea" \in comorbidities),
           Flag("hypothyroidism" \in comorbidities) >>

(***************************************************************************)
(* Similarity engine                                                       *)
(***************************************************************************)
SumSq(v) == SumSeq([i \in DOMAIN v |-> v[i] * v[i]])

\* sklearn normalize(): v / ||v||, a zero vector left as it is; the result
\* is in ten-thousandths
Normalize(v) ==
    LET norm10 == Isqrt(100 * SumSq(v))
    IN  IF norm10 = 0 THEN v
        ELSE [i \in DOMAIN v |-> RoundHalfEven(v[i] * 100000, norm10)]

\* sklearn cosine_similarity, in ten-thousandths
CosineSimilarity(u, e) ==
    LET un == Normalize(u)
        en == Normalize(e)
    IN  RoundHalfEven(SumSeq([i \in DOMAIN un |-> un[i] * en[i]]), 10000)

\* the similarity with self.weights applied: a feature group of weight 0
\* (here the weight in lb) is left out of both vectors
CalculateSimilarityWeighted(user_features, experience_features) ==
    LET Masked(v) == [i \in DOMAIN v |->
                        IF i = 4 /\ weights.weight = 0 THEN 0 ELSE v[i]]
        similarity == CosineSimilarity(Masked(user_features),
                                       Masked(experience_features))
    IN  IF similarity > 0 THEN similarity ELSE 0

\* _calculate_similarity: max(0, cosine)
CalculateSimilarity(user_features, experience_features) ==
    LET similarity == CosineSimilarity(user_features, experience_features)
    IN  IF similarity > 0 THEN similarity ELSE 0

\* experiences_df[experiences_df['primary_drug'] == drug]: the positions of
\* the drug's rows, in table order
RECURSIVE DrugRowsFrom(_, _, _)
DrugRowsFrom(rows, drug, i) ==
    IF i > Len(rows) THEN <<>>
    ELSE IF rows[i].primary_drug = <<drug>>
         THEN <<i>> \o DrugRowsFrom(rows, drug, i + 1)
         ELSE DrugRowsFrom(rows, drug, i + 1)

DrugRows(rows, drug) == DrugRowsFrom(rows, drug, 1)

\* nlargest with keep='last': of equal entries the later ones first
RECURSIVE NLargestKeepLast(_, _)
NLargestKeepLast(n, entries) ==
    IF n <= 0 \/ entries = <<>> THEN <<>>
    ELSE LET best == CHOOSE i \in DOMAIN entries :
                        /\ \A j \in DOMAIN entries :
                              entries[j].similarity <= entries[i].similarity
                        /\ \A j \in (i + 1)..Len(entries) :
                              entries[j].similarity < entries[i].similarity
             rest == [j \in 1..(Len(entries) - 1) |->
                        IF j < best THEN entries[j] ELSE entries[j + 1]]
         IN  <<entries[best]>> \o NLargestKeepLast(n - 1, rest)

\* nlargest that takes one entry more than asked for
RECURSIVE NLargestOneMore(_, _)
NLargestOneMore(n, entries) ==
    IF n < 0 \/ entries = <<>> THEN <<>>
    ELSE LET best == CHOOSE i \in DOMAIN entries :
                        /\ \A j \in DOMAIN entries :
                              entries[j].similarity <= entries[i].similarity
                        /\ \A j \in 1..(i - 1) :
                              entries[j].similarity < entries[i].similarity
             rest == [j \in 1..(Len(entries) - 1) |->
                        IF j < best THEN entries[j] ELSE entries[j + 1]]
         IN  <<entries[best]>> \o NLargestOneMore(n - 1, rest)

\* DataFrame.nlargest(n, 'similarity') with keep='first': the n entries of
\* highest similarity, highest first, equal ones in their original order
RECURSIVE NLargest(_, _)
NLargest(n, entries) ==
    IF n <= 0 \/ entries = <<>> THEN <<>>
    ELSE LET best == CHOOSE i \in DOMAIN entries :
                        /\ \A j \in DOMAIN entries :
                              entries[j].similarity <= entries[i].similarity
                        /\ \A j \in 1..(i - 1) :
                              entries[j].similarity < entries[i].similarity
             rest == [j \in 1..(Len(entries) - 1) |->
                        IF j < best THEN entries[j] ELSE entries[j + 1]]
         IN  <<entries[best]>> \o NLargest(n - 1, rest)

\* _find_similar_experiences: the drug's rows (copied), each with its
\* 'similarity', cut to the k most similar
FindSimilarExperiences(user, rows, drug, kk) ==
    LET idx == DrugRows(rows, drug)
        user_features == ExtractUserFeatures(user)
        drug_experiences ==
            [j \in DOMAIN idx |->
                [row |-> rows[idx[j]],
                 index |-> idx[j],
                 similarity |->
                    CalculateSimilarity(user_features,
                        ExtractExperienceFeatures(rows[idx[j]]))]]
    IN  NLargest(kk, drug_experiences)

(***************************************************************************)
(* Outcome aggregator                                                      *)
(***************************************************************************)
\* Series.dropna() of one column of the neighbour set: the present values
DropNa(similar_experiences, col) ==
    LET present == {i \in DOMAIN similar_experiences :
                        similar_experiences[i].row[col] # <<>>}
        F[i \in 0..Len(similar_experiences)] ==
            IF i = 0 THEN <<>>
            ELSE IF i \in present
                 THEN Append(F[i - 1], similar_experiences[i].row[col][1])
                 ELSE F[i - 1]
    IN  F[Len(similar_experiences)]

\* the conversion turned round: multiplied by 2.20462
ToUserUnitMultiplied(n, d, user) ==
    IF StrLower(user.weight_unit) = KG
    THEN <<n * 220462, d * 100000>>
    ELSE <<n, d>>

\* the conversion left out: the figures stay in pounds
ToUserUnitUnconverted(n, d, user) == <<n, d>>

\* weight_losses / 2.20462 when the user's unit is kg: a value in lb, given
\* as the fraction n/d, in the user's unit
ToUserUnit(n, d, user) ==
    IF StrLower(user.weight_unit) = KG
    THEN <<n * 100000, d * 220462>>
    ELSE <<n, d>>

\* the name trimmed but not title-cased
NormalizeNameNoTitle(name) ==
    IF name = <<>> THEN <<>> ELSE StrStrip(name[1])

\* se['name'].strip().title() if se['name'] else ''
NormalizeName(name) ==
    IF name = <<>> THEN <<>> ELSE StrTitle(StrStrip(name[1]))

\* the severity overwritten at every occurrence: the last one stays
CountSideEffectLatestSeverity(counts, se) ==
    LET name == NormalizeName(se.name)
        severity == IF se.severity = <<>> THEN "moderate" ELSE se.severity[1]
    IN  IF name = <<>> THEN counts
        ELSE IF \E i \in DOMAIN counts : counts[i].name = name
             THEN [i \in DOMAIN counts |->
                     IF counts[i].name = name
                     THEN [counts[i] EXCEPT !.count = @ + 1, !.severity = severity]
                     ELSE counts[i]]
             ELSE Append(counts, [name |-> name, count |-> 1, severity |-> severity])

\* one side effect entered into side_effects_counts (a dict, kept as the
\* sequence of its items in insertion order)
CountSideEffect(counts, se) ==
    LET name == NormalizeName(se.name)
        severity == IF se.severity = <<>> THEN "moderate" ELSE se.severity[1]
    IN  IF name = <<>> THEN counts
        ELSE IF \E i \in DOMAIN counts : counts[i].name = name
             THEN [i \in DOMAIN counts |->
                     IF counts[i].name = name
                     THEN [counts[i] EXCEPT !.count = @ + 1]
                     ELSE counts[i]]
             ELSE Append(counts, [name |-> name, count |-> 1, severity |-> severity])

RECURSIVE CountList(_, _)
CountList(counts, side_effects) ==
    IF side_effects = <<>> THEN counts
    ELSE CountList(CountSideEffect(counts, Head(side_effects)), Tail(side_effects))

\* the loop over similar_experiences['side_effects']; a value that is not a
\* list (<<>>) is passed over
RECURSIVE SideEffectsCounts(_, _)
SideEffectsCounts(counts, similar_experiences) ==
    IF similar_experiences = <<>> THEN counts
    ELSE LET side_effects == Head(similar_experiences).row.side_effects
         IN  SideEffectsCounts(
                 IF side_effects = <<>> THEN counts
                 ELSE CountList(counts, side_effects[1]),
                 Tail(similar_experiences))

\* sorted(items, key=count, reverse=True)[:n]: stable, so equal counts keep
\* their insertion order
RECURSIVE TopByCount(_, _)
TopByCount(n, items) ==
    IF n <= 0 \/ items = <<>> THEN <<>>
    ELSE LET best == CHOOSE i \in DOMAIN items :
                        /\ \A j \in DOMAIN items : items[j].count <= items[i].count
                        /\ \A j \in 1..(i - 1) : items[j].count < items[i].count
             rest == [j \in 1..(Len(items) - 1) |->
                        IF j < best THEN items[j] ELSE items[j + 1]]
         IN  <<items[best]>> \o TopByCount(n - 1, rest)

\* round((count / total_users) * 100)
Probability(count, total_users) == RoundHalfEven(count * 100, total_users)

TopSideEffects(similar_experiences) ==
    LET top == TopByCount(5, SideEffectsCounts(<<>>, similar_experiences))
    IN  [i \in DOMAIN top |->
            [effect |-> top[i].name,
             probability |-> Probability(top[i].count, Len(similar_experiences)),
             severity |-> top[i].severity]]

\* ascending sort of a sequence of integers
RECURSIVE SortAsc(_)
SortAsc(s) ==
    IF s = <<>> THEN <<>>
    ELSE LET m == MinSeq(s)
             at == CHOOSE i \in DOMAIN s : s[i] = m
         IN  <<m>> \o SortAsc([j \in 1..(Len(s) - 1) |->
                                   IF j < at THEN s[j] ELSE s[j + 1]])

\* Series.median() of a non-empty sequence, as a fraction
Median(s) ==
    LET t == SortAsc(s)
        n == Len(t)
    IN  IF n % 2 = 1 THEN <<t[(n + 1) \div 2], 1>>
        ELSE <<t[n \div 2] + t[n \div 2 + 1], 2>>

\* success counted as a loss of more than 10 percent
SuccessRateStrict(weight_loss_pcts) ==
    IF Len(weight_loss_pcts) > 0
    THEN RoundHalfEven(
            Cardinality({i \in DOMAIN weight_loss_pcts : weight_loss_pcts[i] > 10}) * 100,
            Len(weight_loss_pcts))
    ELSE 0

\* round((success_count / len(weight_loss_pcts)) * 100) if any, else 0
SuccessRate(weight_loss_pcts) ==
    IF Len(weight_loss_pcts) > 0
    THEN RoundHalfEven(
            Cardinality({i \in DOMAIN weight_loss_pcts : weight_loss_pcts[i] >= 10}) * 100,
            Len(weight_loss_pcts))
    ELSE 0

\* _aggregate_outcomes: <<>> is None
AggregateOutcomes(similar_experiences, user) ==
    IF Len(similar_experiences) = 0 THEN <<>>
    ELSE
    LET weight_losses == DropNa(similar_experiences, "weight_loss_lbs")
        costs == DropNa(similar_experiences, "cost_per_month")
        weight_loss_pcts == DropNa(similar_experiences, "weight_loss_percentage")
        some == Len(weight_losses) > 0
    IN  << [weight_loss_min |-> IF some THEN ToUserUnit(MinSeq(weight_losses), 1, user)
                                ELSE <<0, 1>>,
            weight_loss_max |-> IF some THEN ToUserUnit(MaxSeq(weight_losses), 1, user)
                                ELSE <<0, 1>>,
            weight_loss_avg |-> IF some
                                THEN ToUserUnit(SumSeq(weight_losses),
                                                Len(weight_losses), user)
                                ELSE <<0, 1>>,
            success_rate |-> SuccessRate(weight_loss_pcts),
            estimated_cost |-> IF Len(costs) > 0 THEN <<Median(costs)>> ELSE <<>>,
            side_effects |-> TopSideEffects(similar_experiences),
            similar_user_count |-> Len(similar_experiences),
            avg_similarity |->
                <<SumSeq([i \in DOMAIN similar_experiences |->
                             similar_experiences[i].similarity]),
                  Len(similar_experiences)>>] >>

(***************************************************************************)
(* Recommendation scorer                                                   *)
(***************************************************************************)
\* the middle band of the budget score reaching up to twice the budget
BudgetScoreTwice(outcomes, user) ==
    IF /\ user.max_budget # <<>> /\ user.max_budget[1] # 0
       /\ outcomes.estimated_cost # <<>> /\ outcomes.estimated_cost[1][1] # 0
    THEN LET cost == outcomes.estimated_cost[1]
             budget == user.max_budget[1]
         IN  IF cost[1] <= budget * cost[2] THEN 100
             ELSE IF cost[1] <= 2 * budget * cost[2] THEN 70
             ELSE 40
    ELSE 100

\* budget_score: max_budget and estimated_cost are used only when truthy
\* (present and not zero)
BudgetScore(outcomes, user) ==
    IF /\ user.max_budget # <<>> /\ user.max_budget[1] # 0
       /\ outcomes.estimated_cost # <<>> /\ outcomes.estimated_cost[1][1] # 0
    THEN LET cost == outcomes.estimated_cost[1]
             budget == user.max_budget[1]
         IN  IF cost[1] <= budget * cost[2] THEN 100
             ELSE IF 2 * cost[1] <= 3 * budget * cost[2] THEN 70
             ELSE 40
    ELSE 100

\* concerns matched without regard to letter case
SideEffectScoreAnyCase(outcomes, user) ==
    IF user.side_effect_concerns # {} /\ outcomes.side_effects # <<>>
    THEN LET concern_count ==
                 Cardinality({i \in DOMAIN outcomes.side_effects :
                     \E concern \in user.side_effect_concerns :
                         StrLower(concern) = StrLower(outcomes.side_effects[i].effect)})
             score == 100 - concern_count * 20
         IN  IF score > 0 THEN score ELSE 0
    ELSE 100

\* side_effect_score
SideEffectScore(outcomes, user) ==
    IF user.side_effect_concerns # {} /\ outcomes.side_effects # <<>>
    THEN LET concern_count ==
                 Cardinality({i \in DOMAIN outcomes.side_effects :
                     outcomes.side_effects[i].effect \in user.side_effect_concerns})
             score == 100 - concern_count * 20
         IN  IF score > 0 THEN score ELSE 0
    ELSE 100

\* the four factors weighted equally
WeightedScoreEqual(outcomes, user) ==
    LET s == outcomes.avg_similarity[1]
        n == outcomes.avg_similarity[2]
    IN  << 10 * s + 4 * n * ( 250 * outcomes.success_rate
                            + 250 * BudgetScore(outcomes, user)
                            + 250 * SideEffectScore(outcomes, user) ),
           4000 * n >>

\* the weighted average of the four factors, as a fraction:
\* avg_similarity * 100 * 0.40 + success * 0.30 + budget * 0.20 + side * 0.10
WeightedScore(outcomes, user) ==
    LET s == outcomes.avg_similarity[1]
        n == outcomes.avg_similarity[2]
    IN  << 4 * s + n * ( 300 * outcomes.success_rate
                       + 200 * BudgetScore(outcomes, user)
                       + 100 * SideEffectScore(outcomes, user) ),
           1000 * n >>

\* min(100, max(0, match_score))
Clamp(score) ==
    LET lo == IF score[1] > 0 THEN score[1] ELSE 0
    IN  <<IF lo < 100 * score[2] THEN lo ELSE 100 * score[2], score[2]>>

\* _calculate_match_score: a fraction; 0 when outcomes is None
CalculateMatchScore(outcomes, user) ==
    IF outcomes = <<>> THEN <<0, 1>>
    ELSE Clamp(WeightedScore(outcomes[1], user))

\* f"{x:.1f}": a fraction printed with one decimal, as a number of tenths
Fmt1(x) == RoundHalfEven(10 * x[1], x[2])

\* _generate_pros_cons: each message is <<text, number printed in it>>
WeightLossNote(outcomes) ==
    IF outcomes.weight_loss_avg[1] > 30 * outcomes.weight_loss_avg[2]
    THEN [pros |-> <<<<"High average weight loss", Fmt1(outcomes.weight_loss_avg)>>>>,
          cons |-> <<>>]
    ELSE IF outcomes.weight_loss_avg[1] < 20 * outcomes.weight_loss_avg[2]
    THEN [pros |-> <<>>,
          cons |-> <<<<"Moderate average weight loss", Fmt1(outcomes.weight_loss_avg)>>>>]
    ELSE [pros |-> <<>>, cons |-> <<>>]

SuccessNote(outcomes) ==
    IF outcomes.success_rate >= 80
    THEN [pros |-> <<<<"High success rate", outcomes.success_rate>>>>, cons |-> <<>>]
    ELSE IF outcomes.success_rate < 70
    THEN [pros |-> <<>>, cons |-> <<<<"Moderate success rate", outcomes.success_rate>>>>]
    ELSE [pros |-> <<>>, cons |-> <<>>]

\* the high-cost warning given from 500 on
CostNoteHighAbove500(outcomes, user) ==
    IF outcomes.estimated_cost # <<>> /\ outcomes.estimated_cost[1][1] # 0
    THEN LET cost == outcomes.estimated_cost[1]
         IN  IF user.has_insurance /\ cost[1] < 50 * cost[2]
             THEN [pros |-> <<<<"Good insurance coverage", 0>>>>, cons |-> <<>>]
             ELSE IF ~user.has_insurance /\ cost[1] < 500 * cost[2]
             THEN [pros |-> <<<<"Relatively affordable without insurance", 0>>>>,
                   cons |-> <<>>]
             ELSE IF cost[1] > 500 * cost[2]
             THEN [pros |-> <<>>, cons |-> <<<<"High out-of-pocket cost", 0>>>>]
             ELSE [pros |-> <<>>, cons |-> <<>>]
    ELSE [pros |-> <<>>, cons |-> <<>>]

\* the cost branch of _generate_pros_cons
CostNote(outcomes, user) ==
    IF outcomes.estimated_cost # <<>> /\ outcomes.estimated_cost[1][1] # 0
    THEN LET cost == outcomes.estimated_cost[1]
         IN  IF user.has_insurance /\ cost[1] < 50 * cost[2]
             THEN [pros |-> <<<<"Good insurance coverage", 0>>>>, cons |-> <<>>]
             ELSE IF ~user.has_insurance /\ cost[1] < 500 * cost[2]
             THEN [pros |-> <<<<"Relatively affordable without insurance", 0>>>>,
                   cons |-> <<>>]
             ELSE IF cost[1] > 1000 * cost[2]
             THEN [pros |-> <<>>, cons |-> <<<<"High out-of-pocket cost", 0>>>>]
             ELSE [pros |-> <<>>, cons |-> <<>>]
    ELSE [pros |-> <<>>, cons |-> <<>>]

SideEffectsNote(outcomes) ==
    IF Len(outcomes.side_effects) <= 2
    THEN [pros |-> <<<<"Fewer reported side effects", 0>>>>, cons |-> <<>>]
    ELSE IF Len(outcomes.side_effects) >= 4
    THEN [pros |-> <<>>, cons |-> <<<<"Multiple common side effects reported", 0>>>>]
    ELSE [pros |-> <<>>, cons |-> <<>>]

UserCountNote(outcomes) ==
    IF outcomes.similar_user_count >= 30
    THEN [pros |-> <<<<"Strong data from similar users", outcomes.similar_user_count>>>>,
          cons |-> <<>>]
    ELSE IF outcomes.similar_user_count < 10
    THEN [pros |-> <<>>,
          cons |-> <<<<"Limited data", outcomes.similar_user_count>>>>]
    ELSE [pros |-> <<>>, cons |-> <<>>]

GenerateProsCons(drug, outcomes, user) ==
    LET notes == << WeightLossNote(outcomes), SuccessNote(outcomes),
                    CostNote(outcomes, user), SideEffectsNote(outcomes),
                    UserCountNote(outcomes) >>
    IN  [pros |-> notes[1].pros \o notes[2].pros \o notes[3].pros
                    \o notes[4].pros \o notes[5].pros,
         cons |-> notes[1].cons \o notes[2].cons \o notes[3].cons
                    \o notes[4].cons \o notes[5].cons]

(***************************************************************************)
(* Orchestration: recommend                                                *)
(***************************************************************************)
Drugs == {"Ozempic", "Wegovy"}

\* how a sort that is not stable may leave equal counts: in the order the
\* drugs are first seen in the table, or in the reverse of it (with two
\* drugs these are all the orders there are)
TieOrders == {"first_seen", "last_seen"}

CountOf(rows, drug) == Len(DrugRows(rows, drug))

\* experiences_df['primary_drug'].value_counts(): the drugs present (a
\* missing primary_drug is not counted), most frequent first; pandas leaves
\* the order of equally frequent drugs to its sort, here `ties'
RECURSIVE OrderDrugs(_, _, _)
OrderDrugs(rows, drugs, ties) ==
    IF drugs = {} THEN <<>>
    ELSE LET first == CHOOSE a \in drugs : \A b \in drugs \ {a} :
                        \/ CountOf(rows, a) > CountOf(rows, b)
                        \/ /\ CountOf(rows, a) = CountOf(rows, b)
                           /\ IF ties = "first_seen"
                              THEN DrugRows(rows, a)[1] < DrugRows(rows, b)[1]
                              ELSE DrugRows(rows, a)[1] > DrugRows(rows, b)[1]
         IN  <<first>> \o OrderDrugs(rows, drugs \ {first}, ties)

ValueCounts(rows, ties) ==
    OrderDrugs(rows, {d \in Drugs : CountOf(rows, d) > 0}, ties)

\* the eligible drugs held in a collection whose iteration order is not
\* fixed: the order changes from one call to the next
EligibleDrugsPerCall(rows, min_users, ties) ==
    LET eligible == SelectSeq(ValueCounts(rows, ties),
                              LAMBDA d : CountOf(rows, d) >= min_users)
    IN  IF Len(calls) % 2 = 0 THEN eligible
        ELSE [i \in DOMAIN eligible |-> eligible[Len(eligible) + 1 - i]]

\* drug_counts[drug_counts >= self.min_similar_users].index.tolist()
EligibleDrugs(rows, min_users, ties) ==
    SelectSeq(ValueCounts(rows, ties),
              LAMBDA d : CountOf(rows, d) >= min_users)

\* the second eligibility check left out
TooFewSimilarNever(similar_experiences, min_users) == FALSE

\* the second check with <= for <
TooFewSimilarOrEqual(similar_experiences, min_users) ==
    Len(similar_experiences) <= min_users

\* if len(similar_experiences) < self.min_similar_users: continue
TooFewSimilar(similar_experiences, min_users) ==
    Len(similar_experiences) < min_users

\* the score taken for a fraction of 1 and turned into a percentage
RoundScoreAsFraction(match_score) ==
    RoundHalfEven(100 * match_score[1], match_score[2])

\* round(match_score)
RoundScore(match_score) == RoundHalfEven(match_score[1], match_score[2])

\* round(x, 1), as a number of tenths
Round1(x) == RoundHalfEven(10 * x[1], x[2])

\* the DrugRecommendation built for one drug
MakeRecommendation(drug, outcomes, user) ==
    LET notes == GenerateProsCons(drug, outcomes, user)
    IN  [drug |-> drug,
         match_score |-> RoundScore(CalculateMatchScore(<<outcomes>>, user)),
         expected_weight_loss |->
            [min |-> Round1(outcomes.weight_loss_min),
             max |-> Round1(outcomes.weight_loss_max),
             avg |-> Round1(outcomes.weight_loss_avg),
             unit |-> user.weight_unit],
         success_rate |-> outcomes.success_rate,
         estimated_cost |->
            IF outcomes.estimated_cost # <<>> /\ outcomes.estimated_cost[1][1] # 0
            THEN <<RoundHalfEven(outcomes.estimated_cost[1][1],
                                 outcomes.estimated_cost[1][2])>>
            ELSE <<>>,
         side_effect_probability |-> outcomes.side_effects,
         similar_user_count |-> outcomes.similar_user_count,
         pros |-> notes.pros,
         cons |-> notes.cons]

\* the body of the loop over eligible_drugs: the recommendations appended
RECURSIVE Collect(_, _, _, _, _)
Collect(drugs, user, rows, kk, min_users) ==
    IF drugs = <<>> THEN <<>>
    ELSE LET drug == Head(drugs)
             similar_experiences == FindSimilarExperiences(user, rows, drug, kk)
             outcomes == AggregateOutcomes(similar_experiences, user)
             more == Collect(Tail(drugs), user, rows, kk, min_users)
         IN  IF TooFewSimilar(similar_experiences, min_users) THEN more
             ELSE IF outcomes = <<>> THEN more
             ELSE <<MakeRecommendation(drug, outcomes[1], user)>> \o more

\* the sort without reverse=True: lowest score first
RECURSIVE SortByScoreAscending(_)
SortByScoreAscending(recs) ==
    IF recs = <<>> THEN <<>>
    ELSE LET best == CHOOSE i \in DOMAIN recs :
                        /\ \A j \in DOMAIN recs : recs[i].match_score <= recs[j].match_score
                        /\ \A j \in 1..(i - 1) : recs[i].match_score < recs[j].match_score
             rest == [j \in 1..(Len(recs) - 1) |->
                        IF j < best THEN recs[j] ELSE recs[j + 1]]
         IN  <<recs[best]>> \o SortByScoreAscending(rest)

\* a descending sort that is not stable: equal scores come out in the
\* reverse of the order they were appended in
RECURSIVE SortByScoreUnstable(_)
SortByScoreUnstable(recs) ==
    IF recs = <<>> THEN <<>>
    ELSE LET best == CHOOSE i \in DOMAIN recs :
                        /\ \A j \in DOMAIN recs : recs[j].match_score <= recs[i].match_score
                        /\ \A j \in (i + 1)..Len(recs) : recs[j].match_score < recs[i].match_score
             rest == [j \in 1..(Len(recs) - 1) |->
                        IF j < best THEN recs[j] ELSE recs[j + 1]]
         IN  <<recs[best]>> \o SortByScoreUnstable(rest)

\* recommendations.sort(key=match_score, reverse=True): stable, so equal
\* scores keep the order they were appended in
RECURSIVE SortByScore(_)
SortByScore(recs) ==
    IF recs = <<>> THEN <<>>
    ELSE LET best == CHOOSE i \in DOMAIN recs :
                        /\ \A j \in DOMAIN recs : recs[j].match_score <= recs[i].match_score
                        /\ \A j \in 1..(i - 1) : recs[j].match_score < recs[i].match_score
             rest == [j \in 1..(Len(recs) - 1) |->
                        IF j < best THEN recs[j] ELSE recs[j + 1]]
         IN  <<recs[best]>> \o SortByScore(rest)

\* DrugRecommender.recommend
RecommendList(user, rows, kk, min_users, ties) ==
    SortByScore(Collect(EligibleDrugs(rows, min_users, ties),
                        user, rows, kk, min_users))

(***************************************************************************)
(* Inputs: the rows a corpus is made of, the profiles of the requests and  *)
(* the configurations of the recommender                                   *)
(***************************************************************************)
MaxRows  == 3
MaxCalls == 2

Nausea       == <<"N", "a", "u", "s", "e", "a">>
NauseaPadded == <<" ", "n", "a", "u", "s", "e", "a", " ">>
NauseaUpper  == <<"N", "A", "U", "S", "E", "A">>
Fatigue      == <<"F", "a", "t", "i", "g", "u", "e">>

Columns == {"primary_drug", "age", "sex", "beginning_weight_lbs",
            "weight_loss_lbs", "weight_loss_percentage", "has_insurance",
            "comorbidities", "side_effects", "cost_per_month"}

\* a well-formed record with one side effect
RowTypical(drug) ==
    [primary_drug |-> <<drug>>, age |-> <<34>>, sex |-> <<"female">>,
     beginning_weight_lbs |-> <<210>>, weight_loss_lbs |-> <<14>>,
     weight_loss_percentage |-> <<12>>, has_insurance |-> <<TRUE>>,
     comorbidities |-> <<{"pcos"}>>,
     side_effects |-> << <<[name |-> <<Nausea>>, severity |-> <<"mild">>]>> >>,
     cost_per_month |-> <<200>>]

\* a record without age whose side-effect list spells one effect three ways
\* and holds an entry with an empty name
RowRepeats(drug) ==
    [primary_drug |-> <<drug>>, age |-> <<>>, sex |-> <<"male">>,
     beginning_weight_lbs |-> <<250>>, weight_loss_lbs |-> <<31>>,
     weight_loss_percentage |-> <<8>>, has_insurance |-> <<FALSE>>,
     comorbidities |-> <<{"diabetes", "hypertension"}>>,
     side_effects |-> << <<[name |-> <<NauseaPadded>>, severity |-> <<>>],
                           [name |-> <<NauseaUpper>>, severity |-> <<"severe">>],
                           [name |-> <<Fatigue>>, severity |-> <<"mild">>],
                           [name |-> <<<<" ">>>>, severity |-> <<"mild">>]>> >>,
     cost_per_month |-> <<300>>]

\* a record with every optional field missing
RowBare(drug) ==
    [primary_drug |-> <<drug>>, age |-> <<>>, sex |-> <<>>,
     beginning_weight_lbs |-> <<>>, weight_loss_lbs |-> <<>>,
     weight_loss_percentage |-> <<>>, has_insurance |-> <<>>,
     comorbidities |-> <<>>, side_effects |-> <<>>, cost_per_month |-> <<>>]

RowPool == UNION {{RowTypical(d), RowRepeats(d), RowBare(d)} : d \in Drugs}

\* a profile in pounds, with a budget and a side-effect concern
UserLbs ==
    [current_weight |-> 2001, weight_unit |-> LBS, goal_weight |-> 1700,
     age |-> 35, sex |-> "female", comorbidities |-> {"pcos"},
     has_insurance |-> TRUE, max_budget |-> <<150>>,
     side_effect_concerns |-> {Nausea}]

\* the kg-equivalent of a profile: its weights times 0.453592, in kg
\* (weights are carried in tenths, so the product is taken to a tenth of a kg)
KgEquivalent(user) ==
    [user EXCEPT !.current_weight = RoundHalfEven(@ * 453592, 1000000),
                 !.goal_weight = RoundHalfEven(@ * 453592, 1000000),
                 !.weight_unit = KG]

Users == {UserLbs, KgEquivalent(UserLbs)}

\* k_neighbors and min_similar_users of the constructor
Configs == { [k |-> 2, min |-> 1], [k |-> 2, min |-> 2], [k |-> 1, min |-> 2] }

\* the default feature weights, in hundredths
DefaultWeights ==
    [age |-> 15, sex |-> 10, weight |-> 30, bmi_similarity |-> 20,
     comorbidities |-> 15, insurance |-> 10]

\* DrugRecommender.__init__ and an empty table
Init ==
    /\ experiences_df = [columns |-> Columns, rows |-> <<>>]
    /\ \E c \in Configs : k = c.k /\ min_similar_users = c.min
    /\ weights = DefaultWeights
    /\ count_ties \in TieOrders
    /\ calls = <<>>
    /\ neighbours = <<>>
    /\ aggregated = <<>>
    /\ ApiIdle
    /\ ParserIdle

\* the caller assembles the experience table, one record at a time
AddExperience(row) ==
    /\ calls = <<>>
    /\ Len(experiences_df.rows) < MaxRows
    /\ experiences_df' = [experiences_df EXCEPT !.rows = Append(@, row)]
    /\ UNCHANGED <<k, min_similar_users, weights, count_ties, calls,
                   neighbours, aggregated>>
    /\ UNCHANGED api_vars
    /\ UNCHANGED parser_vars

\* drug_experiences['similarity'] = similarities
WithSimilarityColumn(table) ==
    [table EXCEPT !.columns = @ \cup {"similarity"}]

\* the 'similarity' column written to the caller's table: no copy taken
TableAfterFindNoCopy(table) == WithSimilarityColumn(table)

\* the caller's table after _find_similar_experiences: the filtered rows
\* are copied before the 'similarity' column is written
TableAfterFind(table) == table

\* one call of recommend(user, experiences_df); nothing in it assigns to the
\* profile or to the recommender
Recommend(u) ==
    /\ Len(calls) < MaxCalls
    /\ calls' = Append(calls,
          [user |-> u,
           user_after |-> u,
           weights |-> weights,
           result |-> RecommendList(u, experiences_df.rows, k,
                                    min_similar_users, count_ties)])
    /\ experiences_df' =
          IF EligibleDrugs(experiences_df.rows, min_similar_users, count_ties) # <<>>
          THEN TableAfterFind(experiences_df)
          ELSE experiences_df
    /\ UNCHANGED <<k, min_similar_users, weights, count_ties, neighbours, aggregated>>
    /\ UNCHANGED api_vars
    /\ UNCHANGED parser_vars

Next ==
    \/ \E row \in RowPool : AddExperience(row)
    \/ \E u \in Users : Recommend(u)

Spec == Init /\ [][Next]_vars

\* the platforms on which the sort of value_counts() is stable
InitStableCounts == Init /\ count_ties = "first_seen"

SpecStableCounts == InitStableCounts /\ [][Next]_vars

(***************************************************************************)
(* _aggregate_outcomes on its own: a neighbour set of two records, each    *)
(* reporting one side effect whose name is any short string                *)
(***************************************************************************)
MaxNameLen == 2

NameAlphabet == {"n", "N", "a", " "}

RECURSIVE StringsUpTo(_)
StringsUpTo(n) ==
    IF n = 0 THEN {<<>>}
    ELSE LET shorter == StringsUpTo(n - 1)
         IN  shorter \cup {Append(t, c) : t \in shorter, c \in NameAlphabet}

\* se['name']: missing or None (<<>>), or a string (possibly empty)
NameOptions ==
    {<<>>} \cup {<<t>> : t \in StringsUpTo(MaxNameLen)}
           \cup {<<Nausea>>, <<NauseaPadded>>, <<NauseaUpper>>}

\* a selected neighbour whose record reports one side effect
NeighbourWith(name, index) ==
    [row |-> [RowBare("Ozempic") EXCEPT
                !.side_effects = << <<[name |-> name, severity |-> <<>>]>> >>],
     index |-> index,
     similarity |-> 10000]

DefaultK   == 15
DefaultMin == 5

InitAgg ==
    /\ experiences_df = [columns |-> Columns, rows |-> <<>>]
    /\ k = DefaultK
    /\ min_similar_users = DefaultMin
    /\ weights = DefaultWeights
    /\ count_ties = "first_seen"
    /\ calls = <<>>
    /\ neighbours = <<>>
    /\ aggregated = <<>>
    /\ ApiIdle
    /\ ParserIdle

\* _find_similar_experiences hands over two neighbours
SelectNeighbours(name1, name2) ==
    /\ neighbours = <<>>
    /\ neighbours' = <<NeighbourWith(name1, 1), NeighbourWith(name2, 2)>>
    /\ UNCHANGED <<experiences_df, k, min_similar_users, weights, count_ties,
                   calls, aggregated>>
    /\ UNCHANGED api_vars
    /\ UNCHANGED parser_vars

\* _aggregate_outcomes(similar_experiences, user)
Aggregate ==
    /\ neighbours # <<>>
    /\ aggregated = <<>>
    /\ aggregated' = AggregateOutcomes(neighbours, UserLbs)
    /\ UNCHANGED <<experiences_df, k, min_similar_users, weights, count_ties,
                   calls, neighbours>>
    /\ UNCHANGED api_vars
    /\ UNCHANGED parser_vars

NextAgg ==
    \/ \E name1, name2 \in NameOptions : SelectNeighbours(name1, name2)
    \/ Aggregate

SpecAgg == InitAgg /\ [][NextAgg]_vars

(***************************************************************************)
(* recommend on a table as it comes: columns may be absent, and a cell may *)
(* hold None (<<>>), a value (<<v>>, a number of any sign included), the   *)
(* NaN pandas fills in where a record lacks a key other records have, or a *)
(* string that is not a number                                             *)
(***************************************************************************)
MaxRawRows == 2

NaN     == <<"float", "nan">>
Garbage == <<"str", "n/a">>

IsNaN(cell)     == Len(cell) = 2 /\ cell[1] = "float"
IsGarbage(cell) == Len(cell) = 2 /\ cell[1] = "str"

NumericFields == {"beginning_weight_lbs", "weight_loss_lbs",
                  "weight_loss_percentage", "cost_per_month", "age"}

\* the cells that go through safe_float
SafeFloatFields == {"beginning_weight_lbs", "weight_loss_lbs",
                    "weight_loss_percentage", "age"}

\* the columns _aggregate_outcomes subscripts
AggregatedColumns == {"weight_loss_lbs", "side_effects", "cost_per_month",
                      "weight_loss_percentage"}

\* what the code makes of a cell that holds NaN: safe_float and dropna take
\* it for missing, `== 'male'` and isinstance(.., list) are false for it,
\* and `if experience.get('has_insurance')` finds it true
ReadCell(col, cell) ==
    IF IsNaN(cell)
    THEN IF col = "has_insurance" THEN <<TRUE>> ELSE <<>>
    ELSE cell

ReadRow(row) == [col \in Columns |-> ReadCell(col, row[col])]

ReadRows(rows) == [i \in DOMAIN rows |-> ReadRow(rows[i])]

\* _extract_experience_features on one row: float('n/a') raises ValueError
\* in safe_float; NaN for comorbidities survives `or []` and
\* `'diabetes' in comorbidities` raises TypeError
FeatureError(row) ==
    IF \E f \in SafeFloatFields : IsGarbage(row[f]) THEN "ValueError"
    ELSE IF IsNaN(row.comorbidities) THEN "TypeError"
    ELSE ""

\* the first exception of the loop over the eligible drugs: from the rows of
\* a drug in _find_similar_experiences, or from a column that
\* _aggregate_outcomes subscripts and the table lacks
RECURSIVE LoopError(_, _, _, _, _)
LoopError(drugs, user, table, kk, min_users) ==
    IF drugs = <<>> THEN ""
    ELSE LET idx == DrugRows(ReadRows(table.rows), Head(drugs))
             failing == {j \in DOMAIN idx : FeatureError(table.rows[idx[j]]) # ""}
             selected == IF Len(idx) < kk THEN Len(idx) ELSE kk
         IN  IF failing # {}
             THEN FeatureError(table.rows[idx[CHOOSE j \in failing :
                                                \A h \in failing : j <= h]])
             ELSE IF selected >= min_users /\ selected > 0
                     /\ ~(AggregatedColumns \subseteq table.columns)
             THEN "KeyError"
             ELSE LoopError(Tail(drugs), user, table, kk, min_users)

\* the exception recommend(user, experiences_df) ends with, "" if none:
\* experiences_df['primary_drug'] raises KeyError without that column
RecommendError(user, table, kk, min_users, ties) ==
    IF "primary_drug" \notin table.columns THEN "KeyError"
    ELSE LoopError(EligibleDrugs(ReadRows(table.rows), min_users, ties),
                   user, table, kk, min_users)

\* the column sets of the tables: all columns, one the aggregator reads
\* missing, primary_drug missing, and pd.DataFrame([])
ColumnSets == {Columns, Columns \ {"cost_per_month"},
               Columns \ {"primary_drug"}, {}}

\* a record whose numeric field is zero, negative or not a number
Spoiled(row, f, cell) == [row EXCEPT ![f] = cell]

RawRowPool ==
    {RowTypical("Ozempic"), RowBare("Ozempic"),
     [RowTypical("Ozempic") EXCEPT !.comorbidities = NaN],
     [RowTypical("Ozempic") EXCEPT !.primary_drug = <<>>]}
    \cup {Spoiled(RowTypical("Ozempic"), f, cell) :
            f \in NumericFields, cell \in {<<0>>, <<-5>>}}
    \cup {Spoiled(RowTypical("Ozempic"), f, Garbage) : f \in SafeFloatFields}

\* pd.DataFrame(records): a record has no cell in a column the table lacks
InColumns(row, columns) ==
    [col \in Columns |-> IF col \in columns THEN row[col] ELSE <<>>]

InitRaw ==
    /\ \E columns \in ColumnSets :
          experiences_df = [columns |-> columns, rows |-> <<>>]
    /\ \E c \in {cc \in Configs : cc.min = 1 \/ cc.k < cc.min} :
          k = c.k /\ min_similar_users = c.min
    /\ weights = DefaultWeights
    /\ count_ties = "first_seen"
    /\ calls = <<>>
    /\ neighbours = <<>>
    /\ aggregated = <<>>
    /\ ApiIdle
    /\ ParserIdle

AddRawExperience(row) ==
    /\ calls = <<>>
    /\ Len(experiences_df.rows) < MaxRawRows
    /\ experiences_df' =
          [experiences_df EXCEPT
              !.rows = Append(@, InColumns(row, experiences_df.columns))]
    /\ UNCHANGED <<k, min_similar_users, weights, count_ties, calls,
                   neighbours, aggregated>>
    /\ UNCHANGED api_vars
    /\ UNCHANGED parser_vars

\* one call of recommend(user, experiences_df): it raises or returns
RecommendRaw(u) ==
    /\ calls = <<>>
    /\ LET raised == RecommendError(u, experiences_df, k, min_similar_users,
                                    count_ties)
       IN  calls' = <<[user |-> u,
                       user_after |-> u,
                       raised |-> raised,
                       result |-> IF raised = ""
                                  THEN RecommendList(u, ReadRows(experiences_df.rows),
                                                     k, min_similar_users, count_ties)
                                  ELSE <<>>]>>
    /\ UNCHANGED <<experiences_df, k, min_similar_users, weights, count_ties,
                   neighbours, aggregated>>
    /\ UNCHANGED api_vars
    /\ UNCHANGED parser_vars

NextRaw ==
    \/ \E row \in RawRowPool : AddRawExperience(row)
    \/ \E u \in Users : RecommendRaw(u)

SpecRaw == InitRaw /\ [][NextRaw]_vars

(***************************************************************************)
(* Recommenders built with different feature_weights, on a table given     *)
(* whole                                                                   *)
(***************************************************************************)
MaxGivenRows == 2

\* the row sequences of at most n records of a pool
RECURSIVE TablesOver(_, _)
TablesOver(pool, n) ==
    IF n = 0 THEN {<<>>}
    ELSE LET shorter == TablesOver(pool, n - 1)
         IN  shorter \cup {Append(t, row) : t \in shorter, row \in pool}

\* a feature_weights argument, in hundredths
CustomWeights == [DefaultWeights EXCEPT !.weight = 0, !.age = 45]

WeightChoices == {DefaultWeights, CustomWeights}

InitWeights ==
    /\ \E t \in TablesOver(RowPool, MaxGivenRows) :
          experiences_df = [columns |-> Columns, rows |-> t]
    /\ \E c \in {cc \in Configs : cc.min = 1} : k = c.k /\ min_similar_users = c.min
    /\ weights \in WeightChoices
    /\ count_ties = "first_seen"
    /\ calls = <<>>
    /\ neighbours = <<>>
    /\ aggregated = <<>>
    /\ ApiIdle
    /\ ParserIdle

\* DrugRecommender(k_neighbors, min_similar_users, feature_weights): another
\* instance, with the same k and min_similar_users, takes over
Construct(feature_weights) ==
    /\ feature_weights # weights
    /\ weights' = feature_weights
    /\ UNCHANGED <<experiences_df, k, min_similar_users, count_ties, calls,
                   neighbours, aggregated>>
    /\ UNCHANGED api_vars
    /\ UNCHANGED parser_vars

NextWeights ==
    \/ \E feature_weights \in WeightChoices : Construct(feature_weights)
    \/ \E u \in Users : Recommend(u)

SpecWeights == InitWeights /\ [][NextWeights]_vars

(***************************************************************************)
(* recommend on tables of records that differ in weight_loss_percentage    *)
(***************************************************************************)
MaxPctRows == 3

\* weight_loss_percentage missing, below, at and above the success mark
PctOptions == {<<>>, <<8>>, <<10>>, <<15>>}

PctRows ==
    {[RowTypical("Ozempic") EXCEPT !.weight_loss_percentage = pct] :
        pct \in PctOptions}

InitSuccess ==
    /\ \E t \in TablesOver(PctRows, MaxPctRows) :
          experiences_df = [columns |-> Columns, rows |-> t]
    /\ \E c \in Configs : k = c.k /\ min_similar_users = c.min
    /\ weights = DefaultWeights
    /\ count_ties = "first_seen"
    /\ calls = <<>>
    /\ neighbours = <<>>
    /\ aggregated = <<>>
    /\ ApiIdle
    /\ ParserIdle

NextSuccess == \E u \in Users : Recommend(u)

SpecSuccess == InitSuccess /\ [][NextSuccess]_vars

(***************************************************************************)
(* The two vectorizers on their own                                        *)
(***************************************************************************)
\* profiles whose weight in lb and goal percentage are whole numbers, as
\* the figures of a record are: 200 lb with a goal of 170 lb, and the same
\* in kg (90.7 kg is 200.0 lb and 77.1 kg is 170.0 lb to a tenth)
Profiles ==
    {[current_weight |-> w[1], weight_unit |-> w[3], goal_weight |-> w[2],
      age |-> age, sex |-> sex, comorbidities |-> c,
      has_insurance |-> ins, max_budget |-> <<>>, side_effect_concerns |-> {}] :
        w \in {<<2000, 1700, LBS>>, <<907, 771, KG>>},
        age \in {35, 52},
        sex \in {"female", "male", "other"},
        c \in {{}, {"pcos"}, {"diabetes", "sleep apnea"}},
        ins \in BOOLEAN}

\* the record of a person with the profile's values
RecordLike(user) ==
    LET weight_lbs == ConvertWeightToLbs(user.current_weight, user.weight_unit)
        goal_lbs   == ConvertWeightToLbs(user.goal_weight, user.weight_unit)
    IN  [RowBare("Ozempic") EXCEPT
            !.age = <<user.age>>,
            !.sex = <<user.sex>>,
            !.beginning_weight_lbs = <<weight_lbs \div 10>>,
            !.weight_loss_percentage =
                <<((weight_lbs - goal_lbs) * 100) \div weight_lbs>>,
            !.has_insurance = <<user.has_insurance>>,
            !.comorbidities = <<user.comorbidities>>]

\* records like a profile, and records that differ from it in one field
VectorizedRecords ==
    {RecordLike(u) : u \in Profiles}
    \cup {[RecordLike(u) EXCEPT !.weight_loss_lbs = <<31>>] : u \in Profiles}
    \cup {RowTypical("Ozempic"), RowRepeats("Wegovy"), RowBare("Ozempic")}

InitVec ==
    /\ experiences_df = [columns |-> Columns, rows |-> <<>>]
    /\ k = DefaultK
    /\ min_similar_users = DefaultMin
    /\ weights = DefaultWeights
    /\ count_ties = "first_seen"
    /\ calls = <<>>
    /\ neighbours = <<>>
    /\ aggregated = <<>>
    /\ ApiIdle
    /\ ParserIdle

\* _extract_user_features(user), once for a request
ExtractUser(user) ==
    /\ Len(calls) < MaxCalls
    /\ \A c \in DOMAIN calls : calls[c].of # "user"
    /\ calls' = Append(calls, [of |-> "user", input |-> user,
                               features |-> ExtractUserFeatures(user)])
    /\ UNCHANGED <<experiences_df, k, min_similar_users, weights, count_ties,
                   neighbours, aggregated>>
    /\ UNCHANGED api_vars
    /\ UNCHANGED parser_vars

\* _extract_experience_features(experience), for one record
ExtractExperience(experience) ==
    /\ Len(calls) < MaxCalls
    /\ \A c \in DOMAIN calls : calls[c].of # "experience"
    /\ calls' = Append(calls, [of |-> "experience", input |-> experience,
                               features |-> ExtractExperienceFeatures(experience)])
    /\ UNCHANGED <<experiences_df, k, min_similar_users, weights, count_ties,
                   neighbours, aggregated>>
    /\ UNCHANGED api_vars
    /\ UNCHANGED parser_vars

NextVec ==
    \/ \E user \in Profiles : ExtractUser(user)
    \/ \E experience \in VectorizedRecords : ExtractExperience(experience)

SpecVec == InitVec /\ [][NextVec]_vars

(***************************************************************************)
(* _find_similar_experiences on its own, on a table given whole            *)
(***************************************************************************)
InitFind ==
    /\ \E t \in TablesOver(RowPool, MaxGivenRows) :
          experiences_df = [columns |-> Columns, rows |-> t]
    /\ \E c \in Configs : k = c.k /\ min_similar_users = c.min
    /\ weights = DefaultWeights
    /\ count_ties = "first_seen"
    /\ calls = <<>>
    /\ neighbours = <<>>
    /\ aggregated = <<>>
    /\ ApiIdle
    /\ ParserIdle

\* _find_similar_experiences(user, experiences_df, drug)
FindSimilar(user, drug) ==
    /\ calls = <<>>
    /\ calls' = <<[user |-> user, drug |-> drug,
                   result |-> FindSimilarExperiences(user, experiences_df.rows,
                                                     drug, k)]>>
    /\ UNCHANGED <<experiences_df, k, min_similar_users, weights, count_ties,
                   neighbours, aggregated>>
    /\ UNCHANGED api_vars
    /\ UNCHANGED parser_vars

NextFind == \E user \in Users, drug \in Drugs : FindSimilar(user, drug)

SpecFind == InitFind /\ [][NextFind]_vars

(***************************************************************************)
(* _aggregate_outcomes on neighbour sets that report many side effects     *)
(***************************************************************************)
MaxNeighbours == 3

Gas        == <<"G", "a", "s">>
Flu        == <<"F", "l", "u">>
Tinnitus   == <<"T", "i", "n", "n", "i", "t", "u", "s">>
Sinusitis  == <<"S", "i", "n", "u", "s", "i", "t", "i", "s">>
Diskinesia == <<"D", "i", "s", "k", "i", "n", "e", "s", "i", "a">>

SideEffect(name, severity) == [name |-> <<name>>, severity |-> severity]

\* the side_effects cells of the records: lists of entries, an empty list,
\* and a cell that holds no list
SideEffectCells ==
    { << <<SideEffect(Gas, <<>>), SideEffect(Flu, <<"mild">>),
           SideEffect(Tinnitus, <<"severe">>), SideEffect(Nausea, <<"mild">>),
           SideEffect(Fatigue, <<>>)>> >>,
      << <<SideEffect(Sinusitis, <<"severe">>), SideEffect(Sinusitis, <<>>),
           SideEffect(Fatigue, <<"severe">>)>> >>,
      << <<SideEffect(Diskinesia, <<>>), SideEffect(NauseaPadded, <<"severe">>),
           SideEffect(Flu, <<"severe">>)>> >>,
      << <<SideEffect(Fatigue, <<"mild">>), SideEffect(Diskinesia, <<"mild">>),
           SideEffect(Diskinesia, <<"severe">>), SideEffect(<<" ">>, <<"mild">>)>> >>,
      << <<>> >>,
      <<>> }

RECURSIVE CellsUpTo(_)
CellsUpTo(n) ==
    IF n = 0 THEN {<<>>}
    ELSE LET shorter == CellsUpTo(n - 1)
         IN  shorter \cup {Append(t, cell) : t \in shorter, cell \in SideEffectCells}

\* _find_similar_experiences hands over neighbours with these cells
SelectReporting(cells) ==
    /\ neighbours = <<>>
    /\ cells # <<>>
    /\ neighbours' = [i \in DOMAIN cells |->
                        [row |-> [RowBare("Ozempic") EXCEPT !.side_effects = cells[i]],
                         index |-> i,
                         similarity |-> 10000]]
    /\ UNCHANGED <<experiences_df, k, min_similar_users, weights, count_ties,
                   calls, aggregated>>
    /\ UNCHANGED api_vars
    /\ UNCHANGED parser_vars

NextEffects ==
    \/ \E cells \in CellsUpTo(MaxNeighbours) : SelectReporting(cells)
    \/ Aggregate

SpecEffects == InitAgg /\ [][NextEffects]_vars

(***************************************************************************)
(* recommend for profiles with different budgets and concerns, on tables   *)
(* of records with different costs                                         *)
(***************************************************************************)
\* max_budget: none or a positive amount
Budgets == {<<>>, <<50>>, <<200>>}

ConcernLists == {{}, {Nausea}, {Nausea, Fatigue}}

ScoredUsers ==
    {[UserLbs EXCEPT !.max_budget = budget, !.side_effect_concerns = concerns] :
        budget \in Budgets, concerns \in ConcernLists}

\* cost_per_month: missing, free, 1.5 times the small budget, the large one
CostOptions == {<<>>, <<0>>, <<75>>, <<200>>}

ScoredRows ==
    {[RowTypical("Ozempic") EXCEPT !.cost_per_month = cost] : cost \in CostOptions}
    \cup {RowRepeats("Ozempic"), RowBare("Ozempic")}

InitScore ==
    /\ \E t \in TablesOver(ScoredRows, MaxGivenRows) :
          experiences_df = [columns |-> Columns, rows |-> t]
    /\ \E c \in {cc \in Configs : cc.min = 1} : k = c.k /\ min_similar_users = c.min
    /\ weights = DefaultWeights
    /\ count_ties = "first_seen"
    /\ calls = <<>>
    /\ neighbours = <<>>
    /\ aggregated = <<>>
    /\ ApiIdle
    /\ ParserIdle

\* the first request served
RecommendOnce(u) == calls = <<>> /\ Recommend(u)

NextScore == \E u \in ScoredUsers : RecommendOnce(u)

SpecScore == InitScore /\ [][NextScore]_vars

(***************************************************************************)
(* recommend for profiles with side-effect concerns in several spellings   *)
(***************************************************************************)
NauseaLower == <<"n", "a", "u", "s", "e", "a">>

\* side_effect_concerns: none, names as the aggregator emits them, names in
\* another letter case, and a list that names every effect of a record
SpelledConcerns ==
    {{}, {Nausea}, {NauseaLower}, {NauseaUpper, Fatigue}, {Nausea, Fatigue},
     {Gas, Flu, Tinnitus, Nausea, Fatigue, Sinusitis}}

ConcernedUsers ==
    {[UserLbs EXCEPT !.side_effect_concerns = concerns] :
        concerns \in SpelledConcerns}

\* records with one, several, five and no side effects
ReportingRows ==
    {RowTypical("Ozempic"), RowRepeats("Ozempic"), RowBare("Ozempic"),
     [RowTypical("Ozempic") EXCEPT !.side_effects =
         << <<SideEffect(Gas, <<>>), SideEffect(Flu, <<"mild">>),
              SideEffect(Tinnitus, <<"severe">>), SideEffect(NauseaLower, <<"mild">>),
              SideEffect(Fatigue, <<>>)>> >>]}

InitConcerns ==
    /\ \E t \in TablesOver(ReportingRows, MaxGivenRows) :
          experiences_df = [columns |-> Columns, rows |-> t]
    /\ \E c \in {cc \in Configs : cc.min = 1} : k = c.k /\ min_similar_users = c.min
    /\ weights = DefaultWeights
    /\ count_ties = "first_seen"
    /\ calls = <<>>
    /\ neighbours = <<>>
    /\ aggregated = <<>>
    /\ ApiIdle
    /\ ParserIdle

NextConcerns == \E u \in ConcernedUsers : RecommendOnce(u)

SpecConcerns == InitConcerns /\ [][NextConcerns]_vars

(***************************************************************************)
(* recommend for insured and uninsured profiles, on tables of records with *)
(* costs around the marks of the cost notes                                *)
(***************************************************************************)
\* cost_per_month: missing, free, and around 50, 500 and 1000
NotedCosts == {<<>>, <<0>>, <<49>>, <<50>>, <<499>>, <<500>>, <<1000>>, <<1001>>}

PricedRows ==
    {[RowTypical("Ozempic") EXCEPT !.cost_per_month = cost] : cost \in NotedCosts}

InsuredOrNot == {[UserLbs EXCEPT !.has_insurance = ins] : ins \in BOOLEAN}

InitNotes ==
    /\ \E t \in TablesOver(PricedRows, MaxGivenRows) :
          experiences_df = [columns |-> Columns, rows |-> t]
    /\ \E c \in {cc \in Configs : cc.min = 1} : k = c.k /\ min_similar_users = c.min
    /\ weights = DefaultWeights
    /\ count_ties = "first_seen"
    /\ calls = <<>>
    /\ neighbours = <<>>
    /\ aggregated = <<>>
    /\ ApiIdle
    /\ ParserIdle

NextNotes == \E u \in InsuredOrNot : RecommendOnce(u)

SpecNotes == InitNotes /\ [][NextNotes]_vars

(***************************************************************************)
(* _extract_user_features on profiles whose weight_unit is spelled in      *)
(* several ways                                                            *)
(***************************************************************************)
\* "kg" in every letter case, and strings that are not "kg"
KgSpellings == {KG, <<"K", "G">>, <<"K", "g">>, <<"k", "G">>}

OtherUnits == {LBS, <<"L", "B", "S">>, <<"k", "g", "s">>, <<" ", "k", "g">>, <<>>}

\* current and goal weight, in tenths: 100 -> 90, 90.7 -> 77.1, 200 -> 170
WeightPairs == {<<1000, 900>>, <<907, 771>>, <<2000, 1700>>}

UnitProfiles ==
    {[UserLbs EXCEPT !.current_weight = w[1], !.goal_weight = w[2],
                     !.weight_unit = unit, !.sex = sex, !.has_insurance = ins] :
        w \in WeightPairs, unit \in KgSpellings \cup OtherUnits,
        sex \in {"female", "male"}, ins \in BOOLEAN}

NextUnits == \E user \in UnitProfiles : ExtractUser(user)

SpecUnits == InitVec /\ [][NextUnits]_vars

(***************************************************************************)
(* recommend on corpora of many records, for recommenders built with       *)
(* k_neighbors and min_similar_users on either side of each other and of   *)
(* the 30 of the "Strong data" note                                        *)
(***************************************************************************)
MaxCopies == 31

\* the i-th record of a drug
SizedRow(drug, i) ==
    IF i = 1 THEN RowTypical(drug)
    ELSE IF i = 2 THEN RowRepeats(drug)
    ELSE IF i % 2 = 1 THEN RowBare(drug)
    ELSE [RowBare(drug) EXCEPT !.age = <<50>>, !.weight_loss_lbs = <<20>>,
                               !.weight_loss_percentage = <<11>>,
                               !.cost_per_month = <<250>>]

\* a table of n Ozempic records with m Wegovy records after the first
\* Ozempic record
SizedTable(n, m) ==
    [i \in 1..(n + m) |->
        IF n = 0 THEN SizedRow("Wegovy", i)
        ELSE IF i = 1 THEN SizedRow("Ozempic", 1)
        ELSE IF i <= m + 1 THEN SizedRow("Wegovy", i - 1)
        ELSE SizedRow("Ozempic", i - m)]

\* the numbers of Ozempic records, and of Wegovy records
OzempicSizes == {0, 1, 2, 4, 5, 6, 15, 16, MaxCopies - 2, MaxCopies - 1, MaxCopies}

WegovySizes == {0, 1, 2, 5}

\* k_neighbors and min_similar_users: the defaults, equal, either below the
\* other, and k_neighbors at 0, 30 and 31
SizedConfigs ==
    { [k |-> DefaultK, min |-> DefaultMin], [k |-> 2, min |-> 1],
      [k |-> 5, min |-> 5], [k |-> 30, min |-> 5], [k |-> 31, min |-> 30],
      [k |-> 1, min |-> 2], [k |-> 4, min |-> 5], [k |-> 29, min |-> 30],
      [k |-> 0, min |-> 0], [k |-> 0, min |-> 1] }

InitSized ==
    /\ \E n \in OzempicSizes, m \in WegovySizes :
          experiences_df = [columns |-> Columns, rows |-> SizedTable(n, m)]
    /\ \E c \in SizedConfigs : k = c.k /\ min_similar_users = c.min
    /\ weights = DefaultWeights
    /\ count_ties = "first_seen"
    /\ calls = <<>>
    /\ neighbours = <<>>
    /\ aggregated = <<>>
    /\ ApiIdle
    /\ ParserIdle

NextSized == \E u \in Users : RecommendOnce(u)

SpecSized == InitSized /\ [][NextSized]_vars

(***************************************************************************)
(* The experiences cache of the ML API service (src/apps/ml/api.py).  The  *)
(* log `calls' holds the calls of fetch_experiences and clear_cache, each  *)
(* [op, limit, queried, response, raised, table].                          *)
(***************************************************************************)
MaxViewRows == 2
MaxRequests == 5

\* rows of the view: two the query selects and one it leaves out
ViewRows == {RowTypical("Ozempic"), RowTypical("Wegovy"), RowBare("Ozempic")}

\* the limit of get_recommendations, and a smaller one
Limits == {1, 1000}

\* .not_.is_('primary_drug', 'null').not_.is_('weight_loss_lbs', 'null')
NotNull(rows) ==
    SelectSeq(rows, LAMBDA r : r.primary_drug # <<>> /\ r.weight_loss_lbs # <<>>)

\* the sequences of n different rows of a sequence, in any order
Arrangements(rows, n) ==
    {[i \in 1..n |-> rows[f[i]]] :
        f \in {g \in [1..n -> DOMAIN rows] :
                 \A a, b \in 1..n : a # b => g[a] # g[b]}}

\* response.data of the query: the query has no order, so any `limit' of
\* the selected rows may come back, in any order
QueryResults(rows, limit) ==
    LET selected == NotNull(rows)
        n == IF limit <= 0 THEN 0
             ELSE IF limit < Len(selected) THEN limit ELSE Len(selected)
    IN  Arrangements(selected, n)

\* a fetch that stores the table even when the query found nothing
FetchResultCachesEmpty(cache, data) ==
    IF cache # <<>>
    THEN [queried |-> FALSE, response |-> <<>>, raised |-> "",
          table |-> cache, cache |-> cache]
    ELSE IF data = <<>>
    THEN [queried |-> TRUE, response |-> data, raised |-> "ValueError",
          table |-> <<>>, cache |-> <<data>>]
    ELSE [queried |-> TRUE, response |-> data, raised |-> "",
          table |-> <<data>>, cache |-> <<data>>]

\* fetch_experiences with _experiences_cache = cache, `data' being what the
\* query returns if it is made: whether it is made, what is raised or
\* returned, and the cache afterwards
FetchResult(cache, data) ==
    IF cache # <<>>
    THEN [queried |-> FALSE, response |-> <<>>, raised |-> "",
          table |-> cache, cache |-> cache]
    ELSE IF data = <<>>
    THEN [queried |-> TRUE, response |-> data, raised |-> "ValueError",
          table |-> <<>>, cache |-> <<>>]
    ELSE [queried |-> TRUE, response |-> data, raised |-> "",
          table |-> <<data>>, cache |-> <<data>>]

\* the service started: the recommender of get_recommendations, no cache
InitApi ==
    /\ experiences_df = [columns |-> Columns, rows |-> <<>>]
    /\ k = DefaultK
    /\ min_similar_users = DefaultMin
    /\ weights = DefaultWeights
    /\ count_ties = "first_seen"
    /\ calls = <<>>
    /\ neighbours = <<>>
    /\ aggregated = <<>>
    /\ ApiIdle
    /\ ParserIdle

\* a row joins the view
ViewGrows(row) ==
    /\ Len(database) < MaxViewRows
    /\ database' = Append(database, row)
    /\ UNCHANGED <<experiences_df, k, min_similar_users, weights, count_ties,
                   calls, neighbours, aggregated, experiences_cache>>
    /\ UNCHANGED parser_vars

\* fetch_experiences(supabase, limit)
FetchExperiences(limit) ==
    /\ Len(calls) < MaxRequests
    /\ \E data \in QueryResults(database, limit) :
          LET result == FetchResult(experiences_cache, data)
          IN  /\ experiences_cache' = result.cache
              /\ calls' = Append(calls,
                    [op |-> "fetch_experiences", limit |-> limit,
                     queried |-> result.queried, response |-> result.response,
                     raised |-> result.raised, table |-> result.table])
    /\ UNCHANGED <<experiences_df, k, min_similar_users, weights, count_ties,
                   neighbours, aggregated, database>>
    /\ UNCHANGED parser_vars

\* clear_cache()
ClearCache ==
    /\ Len(calls) < MaxRequests
    /\ experiences_cache' = <<>>
    /\ calls' = Append(calls,
          [op |-> "clear_cache", limit |-> 0, queried |-> FALSE,
           response |-> <<>>, raised |-> "", table |-> <<>>])
    /\ UNCHANGED <<experiences_df, k, min_similar_users, weights, count_ties,
                   neighbours, aggregated, database>>
    /\ UNCHANGED parser_vars

NextApi ==
    \/ \E row \in ViewRows : ViewGrows(row)
    \/ \E limit \in Limits : FetchExperiences(limit)
    \/ ClearCache

SpecApi == InitApi /\ [][NextApi]_vars

(***************************************************************************)
(* calculate_comment_depth (src/apps/data-ingestion/src/ingestion/         *)
(* parsers.py), one step of its loop at a time.  An object is a pair       *)
(* <<kind, number>>; `calls' holds the finished calls, each                *)
(* [comment, depth].                                                       *)
(***************************************************************************)
MAX_COMMENT_DEPTH == 50

MaxChain == 55

\* the submission
Post == <<"post", 0>>

\* a thread of comments each replying to the one before: the first is
\* top-level, its parent the submission
Chain == {<<"chain", n>> : n \in 1..MaxChain}

\* two comments whose parent() return each other
Loop == {<<"loop", 1>>, <<"loop", 2>>}

\* a reply whose parent() raises, and a reply to it
Orphan == <<"orphan", 0>>
ReplyToOrphan == <<"reply to orphan", 0>>

\* an object with a parent attribute and no is_root, and a reply to it
Odd == <<"odd", 0>>
ReplyToOdd == <<"reply to odd", 0>>

Comments == Chain \cup Loop \cup {Orphan, ReplyToOrphan, ReplyToOdd}

\* hasattr(thing, 'parent')
HasAttrParent(thing) == thing # Post

\* thing.parent() raises
ParentRaises(thing) == thing \in {Orphan, Odd}

\* thing.parent()
ParentOf(thing) ==
    IF thing = <<"chain", 1>> THEN Post
    ELSE IF thing \in Chain THEN <<"chain", thing[2] - 1>>
    ELSE IF thing \in Loop THEN <<"loop", 3 - thing[2]>>
    ELSE IF thing = ReplyToOrphan THEN Orphan
    ELSE IF thing = ReplyToOdd THEN Odd
    ELSE Nothing

\* thing.is_root raises
IsRootRaises(thing) == thing = Odd

\* thing.is_root
IsRoot(thing) == thing = <<"chain", 1>>

\* a loop that lets one more iteration pass before it breaks
WhileStepLateBreak(p, d, i) ==
    IF ~HasAttrParent(p)
    THEN [parent |-> p, depth |-> d, iterations |-> i, pc |-> "return"]
    ELSE IF IsRootRaises(p)
    THEN [parent |-> p, depth |-> d, iterations |-> i, pc |-> "except"]
    ELSE IF IsRoot(p)
    THEN [parent |-> p, depth |-> d, iterations |-> i, pc |-> "return"]
    ELSE IF i + 1 > MAX_COMMENT_DEPTH + 1
    THEN [parent |-> p, depth |-> d + 1, iterations |-> i + 1, pc |-> "return"]
    ELSE IF ParentRaises(p)
    THEN [parent |-> p, depth |-> d + 1, iterations |-> i + 1, pc |-> "except"]
    ELSE [parent |-> ParentOf(p), depth |-> d + 1, iterations |-> i + 1,
          pc |-> "while"]

\* the test of the while loop and, if it passes, one run of its body: the
\* locals afterwards and where the call goes on
WhileStep(p, d, i) ==
    IF ~HasAttrParent(p)
    THEN [parent |-> p, depth |-> d, iterations |-> i, pc |-> "return"]
    ELSE IF IsRootRaises(p)
    THEN [parent |-> p, depth |-> d, iterations |-> i, pc |-> "except"]
    ELSE IF IsRoot(p)
    THEN [parent |-> p, depth |-> d, iterations |-> i, pc |-> "return"]
    ELSE IF i + 1 > MAX_COMMENT_DEPTH
    THEN [parent |-> p, depth |-> d + 1, iterations |-> i + 1, pc |-> "return"]
    ELSE IF ParentRaises(p)
    THEN [parent |-> p, depth |-> d + 1, iterations |-> i + 1, pc |-> "except"]
    ELSE [parent |-> ParentOf(p), depth |-> d + 1, iterations |-> i + 1,
          pc |-> "while"]

\* the ingestion started: nothing of the other services is in use
InitDepth ==
    /\ experiences_df = [columns |-> Columns, rows |-> <<>>]
    /\ k = DefaultK
    /\ min_similar_users = DefaultMin
    /\ weights = DefaultWeights
    /\ count_ties = "first_seen"
    /\ calls = <<>>
    /\ neighbours = <<>>
    /\ aggregated = <<>>
    /\ ApiIdle
    /\ ParserIdle

\* calculate_comment_depth(c) up to the loop: depth = 1, iterations = 0,
\* parent = comment.parent()
Enter(c) ==
    /\ pc = "idle"
    /\ calls = <<>>
    /\ comment' = c
    /\ depth' = 1
    /\ iterations' = 0
    /\ IF ParentRaises(c)
       THEN parent' = Nothing /\ pc' = "except"
       ELSE parent' = ParentOf(c) /\ pc' = "while"
    /\ UNCHANGED <<experiences_df, k, min_similar_users, weights, count_ties,
                   calls, neighbours, aggregated>>
    /\ UNCHANGED api_vars

\* the while loop, once around
Iterate ==
    /\ pc = "while"
    /\ LET after == WhileStep(parent, depth, iterations)
       IN  /\ parent' = after.parent
           /\ depth' = after.depth
           /\ iterations' = after.iterations
           /\ pc' = after.pc
    /\ UNCHANGED <<experiences_df, k, min_similar_users, weights, count_ties,
                   calls, neighbours, aggregated, comment>>
    /\ UNCHANGED api_vars

\* except Exception: depth = 1
Except ==
    /\ pc = "except"
    /\ depth' = 1
    /\ pc' = "return"
    /\ UNCHANGED <<experiences_df, k, min_similar_users, weights, count_ties,
                   calls, neighbours, aggregated, comment, parent, iterations>>
    /\ UNCHANGED api_vars

\* return depth
Return ==
    /\ pc = "return"
    /\ calls' = Append(calls, [comment |-> comment, depth |-> depth])
    /\ pc' = "idle"
    /\ UNCHANGED <<experiences_df, k, min_similar_users, weights, count_ties,
                   neighbours, aggregated, comment, parent, depth, iterations>>
    /\ UNCHANGED api_vars

NextDepth ==
    \/ \E c \in Comments : Enter(c)
    \/ Iterate
    \/ Except
    \/ Return

SpecDepth == InitDepth /\ [][NextDepth]_vars

\* a call that has begun runs on: the interpreter keeps executing it
SpecDepthFair ==
    InitDepth /\ [][NextDepth]_vars
        /\ WF_vars(Iterate) /\ WF_vars(Except) /\ WF_vars(Return)

(***************************************************************************)
(* should_process_content (src/apps/data-ingestion/extraction/filters.py). *)
(* A string is the sequence of its characters; `calls' holds the call      *)
(* made, [content, subreddit, result].                                     *)
(***************************************************************************)
DRUG_KEYWORDS ==
    {
      <<"o", "z", "e", "m", "p", "i", "c">>,
      <<"w", "e", "g", "o", "v", "y">>,
      <<"r", "y", "b", "e", "l", "s", "u", "s">>,
      <<"m", "o", "u", "n", "j", "a", "r", "o">>,
      <<"z", "e", "p", "b", "o", "u", "n", "d">>,
      <<"v", "i", "c", "t", "o", "z", "a">>,
      <<"s", "a", "x", "e", "n", "d", "a">>,
      <<"t", "r", "u", "l", "i", "c", "i", "t", "y">>,
      <<"b", "y", "e", "t", "t", "a">>,
      <<"b", "y", "d", "u", "r", "e", "o", "n">>,
      <<"a", "d", "l", "y", "x", "i", "n">>,
      <<"s", "e", "m", "a", "g", "l", "u", "t", "i", "d", "e">>,
      <<"t", "i", "r", "z", "e", "p", "a", "t", "i", "d", "e">>,
      <<"l", "i", "r", "a", "g", "l", "u", "t", "i", "d", "e">>,
      <<"d", "u", "l", "a", "g", "l", "u", "t", "i", "d", "e">>,
      <<"e", "x", "e", "n", "a", "t", "i", "d", "e">>,
      <<"l", "i", "x", "i", "s", "e", "n", "a", "t", "i", "d", "e">>,
      <<"s", "e", "m", "a">>,
      <<"t", "i", "r", "z">>,
      <<"l", "i", "r", "a">>,
      <<"g", "l", "p", "-", "1">>,
      <<"g", "l", "p", "1">>,
      <<"g", "l", "p", " ", "1">>,
      <<"g", "l", "p", "-", "1", " ", "a", "g", "o", "n", "i", "s", "t">>,
      <<"g", "l", "p", "1", " ", "a", "g", "o", "n", "i", "s", "t">>,
      <<"g", "l", "p", "-", "1", " ", "a", "g", "o", "n", "i", "s", "t", "s">>,
      <<"g", "l", "p", "1", " ", "a", "g", "o", "n", "i", "s", "t", "s">>,
      <<"c", "o", "m", "p", "o", "u", "n", "d">>,
      <<"c", "o", "m", "p", "o", "u", "n", "d", "e", "d">>,
      <<"c", "o", "m", "p", "o", "u", "n", "d", "i", "n", "g">>,
      <<"p", "e", "p", "t", "i", "d", "e">>,
      <<"p", "e", "p", "t", "i", "d", "e", "s">>,
      <<"d", "r", "u", "g">>,
      <<"d", "r", "u", "g", "s">>,
      <<"m", "e", "d", "i", "c", "a", "t", "i", "o", "n">>,
      <<"m", "e", "d", "i", "c", "a", "t", "i", "o", "n", "s">>,
      <<"m", "e", "d", "s">>,
      <<"m", "e", "d", "i", "c", "i", "n", "e">>,
      <<"m", "e", "d", "i", "c", "i", "n", "e", "s">>,
      <<"w", "e", "i", "g", "h", "t", " ", "l", "o", "s", "s">>,
      <<"w", "e", "i", "g", "h", "t", "-", "l", "o", "s", "s">>,
      <<"w", "e", "i", "g", "h", "t", "l", "o", "s", "s">>,
      <<"w", "e", "i", "g", "h", "t", " ", "l", "o", "s", "s", " ", "d", "r", "u", "g">>,
      <<"w", "e", "i", "g", "h", "t", " ", "l", "o", "s", "s", " ", "d", "r", "u", "g", "s">>,
      <<"w", "e", "i", "g", "h", "t", "-", "l", "o", "s", "s", " ", "d", "r", "u", "g">>,
      <<"w", "e", "i", "g", "h", "t", "-", "l", "o", "s", "s", " ", "d", "r", "u", "g", "s">>,
      <<"w", "e", "i", "g", "h", "t", " ", "l", "o", "s", "s", " ", "m", "e", "d", "i", "c", "a", "t", "i", "o", "n">>,
      <<"w", "e", "i", "g", "h", "t", " ", "l", "o", "s", "s", " ", "m", "e", "d", "i", "c", "a", "t", "i", "o", "n", "s">>,
      <<"w", "e", "i", "g", "h", "t", "-", "l", "o", "s", "s", " ", "m", "e", "d", "i", "c", "a", "t", "i", "o", "n">>,
      <<"w", "e", "i", "g", "h", "t", "-", "l", "o", "s", "s", " ", "m", "e", "d", "i", "c", "a", "t", "i", "o", "n", "s">>,
      <<"w", "e", "i", "g", "h", "t", " ", "l", "o", "s", "s", " ", "m", "e", "d", "i", "c", "i", "n", "e">>,
      <<"w", "e", "i", "g", "h", "t", " ", "l", "o", "s", "s", " ", "m", "e", "d", "i", "c", "i", "n", "e", "s">>,
      <<"w", "e", "i", "g", "h", "t", "-", "l", "o", "s", "s", " ", "m", "e", "d", "i", "c", "i", "n", "e">>,
      <<"w", "e", "i", "g", "h", "t", "-", "l", "o", "s", "s", " ", "m", "e", "d", "i", "c", "i", "n", "e", "s">>,
      <<"w", "e", "i", "g", "h", "t", " ", "l", "o", "s", "s", " ", "i", "n", "j", "e", "c", "t", "i", "o", "n">>,
      <<"w", "e", "i", "g", "h", "t", " ", "l", "o", "s", "s", " ", "i", "n", "j", "e", "c", "t", "i", "o", "n", "s">>,
      <<"w", "e", "i", "g", "h", "t", "-", "l", "o", "s", "s", " ", "i", "n", "j", "e", "c", "t", "i", "o", "n">>,
      <<"w", "e", "i", "g", "h", "t", "-", "l", "o", "s", "s", " ", "i", "n", "j", "e", "c", "t", "i", "o", "n", "s">>,
      <<"a", "p", "p", "e", "t", "i", "t", "e", " ", "s", "u", "p", "p", "r", "e", "s", "s", "a", "n", "t">>,
      <<"a", "p", "p", "e", "t", "i", "t", "e", " ", "s", "u", "p", "p", "r", "e", "s", "s", "a", "n", "t", "s">>,
      <<"i", "n", "j", "e", "c", "t", "i", "o", "n">>,
      <<"i", "n", "j", "e", "c", "t", "i", "o", "n", "s">>,
      <<"i", "n", "j", "e", "c", "t", "a", "b", "l", "e">>,
      <<"i", "n", "j", "e", "c", "t", "a", "b", "l", "e", "s">>,
      <<"p", "e", "n">>,
      <<"p", "e", "n", "s">>,
      <<"d", "o", "s", "e">>,
      <<"d", "o", "s", "e", "s">>,
      <<"d", "o", "s", "a", "g", "e">>,
      <<"d", "o", "s", "a", "g", "e", "s">>,
      <<"m", "g">>,
      <<"p", "r", "e", "s", "c", "r", "i", "p", "t", "i", "o", "n">>,
      <<"p", "r", "e", "s", "c", "r", "i", "p", "t", "i", "o", "n", "s">>,
      <<"p", "r", "e", "s", "c", "r", "i", "b", "e">>,
      <<"p", "r", "e", "s", "c", "r", "i", "b", "e", "d">>,
      <<"p", "r", "e", "s", "c", "r", "i", "b", "i", "n", "g">>,
      <<"d", "o", "c", "t", "o", "r">>,
      <<"d", "o", "c", "t", "o", "r", "s">>,
      <<"e", "n", "d", "o", "c", "r", "i", "n", "o", "l", "o", "g", "i", "s", "t">>,
      <<"e", "n", "d", "o", "c", "r", "i", "n", "o", "l", "o", "g", "i", "s", "t", "s">>,
      <<"d", "i", "a", "b", "e", "t", "e", "s">>,
      <<"d", "i", "a", "b", "e", "t", "i", "c">>,
      <<"d", "i", "a", "b", "e", "t", "i", "c", "s">>,
      <<"t", "2", "d">>,
      <<"t", "y", "p", "e", " ", "2">>,
      <<"t", "y", "p", "e", " ", "2", " ", "d", "i", "a", "b", "e", "t", "e", "s">>,
      <<"a", "1", "c">>,
      <<"h", "b", "a", "1", "c">>,
      <<"b", "l", "o", "o", "d", " ", "s", "u", "g", "a", "r">>,
      <<"g", "l", "u", "c", "o", "s", "e">>,
      <<"n", "a", "u", "s", "e", "a">>,
      <<"v", "o", "m", "i", "t", "i", "n", "g">>,
      <<"c", "o", "n", "s", "t", "i", "p", "a", "t", "i", "o", "n">>,
      <<"d", "i", "a", "r", "r", "h", "e", "a">>,
      <<"s", "u", "l", "f", "u", "r", " ", "b", "u", "r", "p">>,
      <<"s", "u", "l", "f", "u", "r", " ", "b", "u", "r", "p", "s">>,
      <<"g", "a", "s", "t", "r", "o", "p", "a", "r", "e", "s", "i", "s">>,
      <<"t", "h", "y", "r", "o", "i", "d">>,
      <<"p", "a", "n", "c", "r", "e", "a", "t", "i", "t", "i", "s">>,
      <<"f", "o", "o", "d", " ", "n", "o", "i", "s", "e">> }

NON_DRUG_SUBREDDITS ==
    {
      <<"l", "o", "s", "e", "i", "t">>,
      <<"p", "r", "o", "g", "r", "e", "s", "s", "p", "i", "c", "s">>,
      <<"i", "n", "t", "e", "r", "m", "i", "t", "t", "e", "n", "t", "f", "a", "s", "t", "i", "n", "g">>,
      <<"1", "2", "0", "0", "i", "s", "p", "l", "e", "n", "t", "y">>,
      <<"f", "a", "s", "t", "i", "n", "g">>,
      <<"C", "I", "C", "O">>,
      <<"1", "5", "0", "0", "i", "s", "p", "l", "e", "n", "t", "y">>,
      <<"P", "C", "O", "S">>,
      <<"B", "r", "o", "g", "r", "e", "s", "s">>,
      <<"d", "i", "a", "b", "e", "t", "e", "s">>,
      <<"o", "b", "e", "s", "i", "t", "y">>,
      <<"S", "u", "p", "e", "r", "M", "o", "r", "b", "i", "d", "l", "y", "O", "b", "e", "s", "e">>,
      <<"d", "i", "a", "b", "e", "t", "e", "s", "_", "t", "2">> }

Digits == {"0", "1", "2", "3", "4", "5", "6", "7", "8", "9"}

\* a character of the class \w
IsWordCh(c) == IsCased(c) \/ c \in Digits \/ c = "_"

\* \b at the gap before position p of a string (p from 1 to Len + 1): a
\* word character on exactly one side
IsBoundary(s, p) ==
    (p > 1 /\ IsWordCh(s[p - 1])) # (p <= Len(s) /\ IsWordCh(s[p]))

\* re.compile(r'\b' + re.escape(keyword) + r'\b', re.IGNORECASE).search(content)
PatternSearch(keyword, content) ==
    \E p \in 1..(Len(content) - Len(keyword) + 1) :
        /\ StrLower(SubSeq(content, p, p + Len(keyword) - 1)) = keyword
        /\ IsBoundary(content, p)
        /\ IsBoundary(content, p + Len(keyword))

\* should_process_content
ShouldProcessContent(content, subreddit) ==
    IF StrLower(subreddit) \notin NON_DRUG_SUBREDDITS THEN TRUE
    ELSE \E keyword \in DRUG_KEYWORDS : PatternSearch(keyword, content)

\* texts with no keyword, with one in another letter case, with one inside a
\* longer word, and with one of several words
Contents ==
    {
      <<>>,
      <<"I", " ", "r", "a", "n", " ", "t", "o", "d", "a", "y">>,
      <<"M", "y", " ", "P", "e", "n", " ", "b", "r", "o", "k", "e">>,
      <<"o", "p", "e", "n", " ", "h", "a", "p", "p", "e", "n", "s">>,
      <<"p", "e", "n", "_", "n", "a", "m", "e">>,
      <<"o", "n", " ", "5", " ", "M", "G", " ", "n", "o", "w">>,
      <<"g", "l", "p", "-", "1", "?">>,
      <<"a", " ", "w", "e", "i", "g", "h", "t", "-", "l", "o", "s", "s", " ", "p", "l", "a", "n">>,
      <<"W", "e", "i", "g", "h", "t", "l", "o", "s", "s", "e", "s">>,
      <<"t", "y", "p", "e", " ", "2">> }

\* the listed subreddits as listed and in lower case, and others
Subreddits ==
    NON_DRUG_SUBREDDITS
    \cup {StrLower(name) : name \in NON_DRUG_SUBREDDITS}
    \cup {
      <<"O", "z", "e", "m", "p", "i", "c">>,
      <<"M", "o", "u", "n", "j", "a", "r", "o">>,
      <<"L", "o", "s", "e", "I", "t">>,
      <<"l", "o", "s", "e", "I", "t">> }

InitFilter ==
    /\ experiences_df = [columns |-> Columns, rows |-> <<>>]
    /\ k = DefaultK
    /\ min_similar_users = DefaultMin
    /\ weights = DefaultWeights
    /\ count_ties = "first_seen"
    /\ calls = <<>>
    /\ neighbours = <<>>
    /\ aggregated = <<>>
    /\ ApiIdle
    /\ ParserIdle

\* one call of should_process_content(content, subreddit)
Filter(content, subreddit) ==
    /\ calls = <<>>
    /\ calls' = <<[content |-> content, subreddit |-> subreddit,
                   result |-> ShouldProcessContent(content, subreddit)]>>
    /\ UNCHANGED <<experiences_df, k, min_similar_users, weights, count_ties,
                   neighbours, aggregated>>
    /\ UNCHANGED api_vars
    /\ UNCHANGED parser_vars

NextFilter == \E content \in Contents, subreddit \in Subreddits : Filter(content, subreddit)

SpecFilter == InitFilter /\ [][NextFilter]_vars

(***************************************************************************)
(* Properties of recommend                                                 *)
(***************************************************************************)
RecordsOf(drug) ==
    Cardinality({i \in DOMAIN experiences_df.rows :
                    experiences_df.rows[i].primary_drug = <<drug>>})

AllReturned ==
    UNION {{calls[n].result[i] : i \in DOMAIN calls[n].result} : n \in DOMAIN calls}

\* C1: every recommendation returned names a drug with at least
\* min_similar_users records in the corpus and carries a similar_user_count
\* of at least min_similar_users; a drug with fewer records is never
\* recommended
C1_Eligibility ==
    \A r \in AllReturned :
        /\ RecordsOf(r.drug) >= min_similar_users
        /\ r.similar_user_count >= min_similar_users

\* a call returned a recommendation while another drug of the corpus had
\* exactly min_similar_users - 1 records and was left out
C1_Witness ==
    \E n \in DOMAIN calls :
        /\ calls[n].result # <<>>
        /\ \E d \in Drugs :
              /\ RecordsOf(d) >= 1
              /\ RecordsOf(d) = min_similar_users - 1
              /\ \A i \in DOMAIN calls[n].result : calls[n].result[i].drug # d

\* C2: every match_score returned is an integer from 0 to 100
C2_ScoreBounds ==
    \A r \in AllReturned : r.match_score \in 0..100

\* two recommendations with different scores were returned, one of them for
\* a profile with a budget the drug's cost exceeds
C2_Witness ==
    \E r1, r2 \in AllReturned :
        /\ r1.match_score # r2.match_score
        /\ r1.estimated_cost # <<>>
        /\ r1.match_score > 0

\* C3: every probability of side_effect_probability is an integer from 0 to
\* 100, whatever the side_effects lists of the neighbours hold
C3_ProbabilityBounds ==
    \A r \in AllReturned :
        \A j \in DOMAIN r.side_effect_probability :
            r.side_effect_probability[j].probability \in 0..100

\* C4: the list returned is sorted non-increasing by match_score
C4_SortedByScore ==
    \A n \in DOMAIN calls :
        \A i \in 1..(Len(calls[n].result) - 1) :
            calls[n].result[i].match_score >= calls[n].result[i + 1].match_score

\* a call returned two recommendations with different scores, the drug with
\* fewer records (the later one before the sort) first
C4_Witness ==
    \E n \in DOMAIN calls :
        /\ Len(calls[n].result) = 2
        /\ calls[n].result[1].match_score > calls[n].result[2].match_score
        /\ RecordsOf(calls[n].result[1].drug) < RecordsOf(calls[n].result[2].drug)

FirstRow(drug) ==
    CHOOSE i \in DOMAIN experiences_df.rows :
        /\ experiences_df.rows[i].primary_drug = <<drug>>
        /\ \A j \in 1..(i - 1) : experiences_df.rows[j].primary_drug # <<drug>>

\* C5 as stated: recommendations of equal match_score are returned in the
\* order in which their drugs are first encountered in the corpus
C5_TiesInCorpusOrder ==
    \A n \in DOMAIN calls :
        \A i, j \in DOMAIN calls[n].result :
            (i < j /\ calls[n].result[i].match_score = calls[n].result[j].match_score)
            => FirstRow(calls[n].result[i].drug) < FirstRow(calls[n].result[j].drug)

\* C5 as amended: recommendations of equal match_score are returned in the
\* order of value_counts(): the drug with more corpus records first, drugs
\* with equally many records as the sort of value_counts leaves them
C5_TiesInValueCountsOrder ==
    \A n \in DOMAIN calls :
        \A i, j \in DOMAIN calls[n].result :
            (i < j /\ calls[n].result[i].match_score = calls[n].result[j].match_score)
            => LET a == calls[n].result[i].drug
                   b == calls[n].result[j].drug
               IN  \/ RecordsOf(a) > RecordsOf(b)
                   \/ /\ RecordsOf(a) = RecordsOf(b)
                      /\ IF count_ties = "first_seen"
                         THEN FirstRow(a) < FirstRow(b)
                         ELSE FirstRow(a) > FirstRow(b)

\* two recommendations of equal score, the first for the drug with more
\* records although the other drug comes first in the corpus
C5_Witness ==
    \E n \in DOMAIN calls :
        /\ Len(calls[n].result) = 2
        /\ calls[n].result[1].match_score = calls[n].result[2].match_score
        /\ RecordsOf(calls[n].result[1].drug) > RecordsOf(calls[n].result[2].drug)
        /\ FirstRow(calls[n].result[1].drug) > FirstRow(calls[n].result[2].drug)

C7_NoSideEffects ==
    [][Len(calls') > Len(calls) =>
          /\ experiences_df' = experiences_df
          /\ k' = k
          /\ min_similar_users' = min_similar_users
          /\ weights' = weights
          /\ calls'[Len(calls')].user_after = calls'[Len(calls')].user]_vars

\* a call found neighbours and returned a recommendation, and the table
\* still has its own columns only
C7_Witness ==
    /\ \E n \in DOMAIN calls : calls[n].result # <<>>
    /\ experiences_df.rows # <<>>
    /\ experiences_df.columns = Columns

(***************************************************************************)
(* Properties of _aggregate_outcomes                                       *)
(***************************************************************************)
\* a name without its leading and trailing whitespace
Core(t) ==
    LET solid == {i \in DOMAIN t : t[i] \notin Whitespace}
    IN  IF solid = {} THEN <<>>
        ELSE SubSeq(t, CHOOSE i \in solid : \A j \in solid : i <= j,
                       CHOOSE i \in solid : \A j \in solid : j <= i)

\* the names the two neighbours report that are not empty after trimming
ReportedNames ==
    {neighbours[i].row.side_effects[1][1].name[1] :
        i \in {j \in DOMAIN neighbours :
                 /\ neighbours[j].row.side_effects[1][1].name # <<>>
                 /\ Core(neighbours[j].row.side_effects[1][1].name[1]) # <<>>}}

Occurrences(folded) ==
    Cardinality({j \in DOMAIN neighbours :
        /\ neighbours[j].row.side_effects[1][1].name # <<>>
        /\ StrLower(Core(neighbours[j].row.side_effects[1][1].name[1])) = folded})

\* every word starts with a capital and goes on in lower case
IsTitleCase(t) ==
    \A i \in DOMAIN t :
        IsCased(t[i]) =>
            IF i > 1 /\ IsCased(t[i - 1]) THEN IsLowerCh(t[i]) ELSE IsUpperCh(t[i])

\* C8: side effects are counted by trimmed, title-cased name: names that
\* differ only in letter case or surrounding whitespace give one entry
\* that counts them all, no two entries have the same effect name, and a
\* name that is empty after trimming gives no entry
C8_CountedByNormalizedName ==
    aggregated # <<>> =>
        LET out == aggregated[1].side_effects
        IN  /\ \A i, j \in DOMAIN out : i # j => out[i].effect # out[j].effect
            /\ Len(out) = Cardinality({StrLower(Core(t)) : t \in ReportedNames})
            /\ \A i \in DOMAIN out :
                  /\ out[i].effect # <<>>
                  /\ Core(out[i].effect) = out[i].effect
                  /\ IsTitleCase(out[i].effect)
                  /\ \E t \in ReportedNames : StrLower(Core(t)) = StrLower(out[i].effect)
                  /\ out[i].probability =
                        50 * Occurrences(StrLower(out[i].effect))
            /\ ( /\ neighbours[1].row.side_effects[1][1].name = <<Nausea>>
                 /\ neighbours[2].row.side_effects[1][1].name = <<NauseaPadded>> )
               => out = <<[effect |-> Nausea, probability |-> 100,
                           severity |-> "moderate"]>>

\* "Nausea" and " nausea " were aggregated into one entry
C8_Witness ==
    /\ aggregated # <<>>
    /\ neighbours[1].row.side_effects[1][1].name = <<Nausea>>
    /\ neighbours[2].row.side_effects[1][1].name = <<NauseaPadded>>
    /\ Len(aggregated[1].side_effects) = 1

(***************************************************************************)
(* Units of expected_weight_loss                                           *)
(***************************************************************************)
Abs(x) == IF x < 0 THEN -x ELSE x

\* t tenths is num/den rounded to one decimal
Near(t, num, den) == 2 * Abs(t * den - 10 * num) <= den

\* the records recommend selected for a drug, by their place in the corpus
SelectedFor(user, drug) ==
    LET similar == FindSimilarExperiences(user, experiences_df.rows, drug, k)
    IN  {similar[i].index : i \in DOMAIN similar}

\* the non-null weight_loss_lbs of the records selected for a drug
LossesFor(user, drug) ==
    DropNa(FindSimilarExperiences(user, experiences_df.rows, drug, k),
           "weight_loss_lbs")

\* C9: expected_weight_loss carries the user's weight_unit; for a kg user
\* its min, max and avg are the min, max and mean of the neighbours' non-null
\* weight_loss_lbs divided by 2.20462, for a lbs user they are those figures
\* in lb, each rounded to one decimal
C9_ReportedInUserUnit ==
    \A c \in DOMAIN calls : \A n \in DOMAIN calls[c].result :
        LET user   == calls[c].user
            loss   == calls[c].result[n].expected_weight_loss
            losses == LossesFor(user, calls[c].result[n].drug)
        IN  /\ loss.unit = user.weight_unit
            /\ Len(losses) > 0 =>
                 IF user.weight_unit = KG
                 THEN /\ Near(loss.min, MinSeq(losses) * 100000, 220462)
                      /\ Near(loss.max, MaxSeq(losses) * 100000, 220462)
                      /\ Near(loss.avg, SumSeq(losses) * 100000,
                              Len(losses) * 220462)
                 ELSE /\ loss.min = 10 * MinSeq(losses)
                      /\ loss.max = 10 * MaxSeq(losses)
                      /\ Near(loss.avg, SumSeq(losses), Len(losses))

\* a kg user got a recommendation whose figures are converted ones
C9_Witness ==
    \E c \in DOMAIN calls : \E n \in DOMAIN calls[c].result :
        LET losses == LossesFor(calls[c].user, calls[c].result[n].drug)
        IN  /\ calls[c].user.weight_unit = KG
            /\ calls[c].result[n].expected_weight_loss.unit = KG
            /\ Len(losses) > 1
            /\ MinSeq(losses) < MaxSeq(losses)
            /\ calls[c].result[n].expected_weight_loss.max < 10 * MaxSeq(losses)

\* a call with a lbs profile and a call with its kg-equivalent profile
UnitPairs ==
    {p \in (DOMAIN calls) \X (DOMAIN calls) :
        /\ calls[p[1]].user.weight_unit = LBS
        /\ calls[p[2]].user = KgEquivalent(calls[p[1]].user)}

DrugsOf(result) == {result[n].drug : n \in DOMAIN result}

LossOf(result, drug) ==
    result[CHOOSE n \in DOMAIN result : result[n].drug = drug].expected_weight_loss

Figures == {"min", "max", "avg"}

\* lb tenths, times 0.453592, within `tenths` tenths of a kg of kg tenths
WithinKg(lb, kg, tenths) == Abs(lb * 453592 - kg * 1000000) <= tenths * 1000000

\* kg tenths, times 2.20462, within `tenths` tenths of a lb of lb tenths
WithinLbs(kg, lb, tenths) == Abs(kg * 220462 - lb * 100000) <= tenths * 100000

GenericErrors == {"KeyError", "ValueError", "TypeError"}

\* C11: on a table without rows, with or without its columns, recommend
\* returns (an empty list) or raises a condition of its own for "no data";
\* it does not end with a generic exception
C11_EmptyCorpus ==
    \A c \in DOMAIN calls :
        experiences_df.rows = <<>> =>
            /\ calls[c].raised \notin GenericErrors
            /\ calls[c].raised = "" => calls[c].result = <<>>

\* a cell that is a well-formed value or is absent (None or NaN)
AbsentOrSound(row, col) ==
    \/ row[col] = <<>>
    \/ IsNaN(row[col])
    \/ /\ Len(row[col]) = 1
       /\ col \in NumericFields => row[col][1] > 0

\* C12: when optional fields of records are absent (None, NaN, or the
\* column not there at all) and everything else is well-formed, recommend
\* does not raise
C12_AbsentFieldsTolerated ==
    \A c \in DOMAIN calls :
        ( /\ "primary_drug" \in experiences_df.columns
          /\ \A i \in DOMAIN experiences_df.rows :
                /\ experiences_df.rows[i].primary_drug # <<>>
                /\ \A col \in Columns : AbsentOrSound(experiences_df.rows[i], col) )
        => calls[c].raised = ""

\* the numeric fields of a row that are zero, negative or not a number
BadNumeric(row) ==
    {f \in NumericFields :
        \/ IsGarbage(row[f])
        \/ Len(row[f]) = 1 /\ row[f][1] <= 0}

\* the weight-loss, cost and success statistics a row contributes
Contribution(row) ==
    LET outcomes == AggregateOutcomes(
                        <<[row |-> ReadRow(row), index |-> 1, similarity |-> 10000]>>,
                        UserLbs)[1]
    IN  <<DropNa(<<[row |-> ReadRow(row)]>>, "weight_loss_lbs"),
          DropNa(<<[row |-> ReadRow(row)]>>, "cost_per_month"),
          DropNa(<<[row |-> ReadRow(row)]>>, "weight_loss_percentage"),
          outcomes.weight_loss_min, outcomes.weight_loss_max,
          outcomes.estimated_cost, outcomes.success_rate>>

\* C13: on a table with all its columns, a row without primary_drug or with
\* a numeric field that is zero, negative or not a number does not make
\* recommend raise, and such a field counts as missing: the row's vector and
\* its contribution to the statistics are those of the row without the field
C13_BadFieldsAsMissing ==
    \A c \in DOMAIN calls :
        ( /\ experiences_df.columns = Columns
          /\ \A i \in DOMAIN experiences_df.rows :
                ~IsNaN(experiences_df.rows[i].comorbidities) )
        => /\ calls[c].raised = ""
           /\ \A i \in DOMAIN experiences_df.rows :
                \A f \in BadNumeric(experiences_df.rows[i]) :
                    LET row   == experiences_df.rows[i]
                        blank == [row EXCEPT ![f] = <<>>]
                    IN  /\ FeatureError(row) = ""
                        /\ ExtractExperienceFeatures(ReadRow(row))
                              = ExtractExperienceFeatures(ReadRow(blank))
                        /\ Contribution(row) = Contribution(blank)

KnownPcts(user, drug) ==
    DropNa(FindSimilarExperiences(user, experiences_df.rows, drug, k),
           "weight_loss_percentage")

ComorbidityOrder ==
    <<"diabetes", "pcos", "hypertension", "sleep apnea", "hypothyroidism">>

\* the record holds the profile's age, sex, weight in lb (positive), goal
\* percentage as its weight_loss_percentage, insurance and comorbidities
SameValues(experience, user) ==
    LET weight_lbs == ConvertWeightToLbs(user.current_weight, user.weight_unit)
        goal_lbs   == ConvertWeightToLbs(user.goal_weight, user.weight_unit)
    IN  /\ experience.age = <<user.age>>
        /\ experience.sex = <<user.sex>>
        /\ experience.beginning_weight_lbs # <<>>
        /\ experience.beginning_weight_lbs[1] > 0
        /\ 10 * experience.beginning_weight_lbs[1] = weight_lbs
        /\ experience.weight_loss_percentage # <<>>
        /\ experience.weight_loss_percentage[1] * weight_lbs
              = 100 * (weight_lbs - goal_lbs)
        /\ experience.has_insurance = <<user.has_insurance>>
        /\ experience.comorbidities = <<user.comorbidities>>

\* C16: both vectorizers return 12 features in the order age, sex_male,
\* sex_female, weight in lb, BMI, weight-loss percentage, has_insurance and
\* the five comorbidity flags, and a record that holds the profile's values
\* gets exactly the profile's vector
C16_SameEncoding ==
    /\ \A c \in DOMAIN calls :
          LET v == calls[c].features
          IN  /\ Len(v) = 12
              /\ \A i \in 1..12 : i \notin {1, 4, 5, 6} => v[i] \in {0, 10}
              /\ v[5] = IF v[4] > 0 THEN CalculateBmi(v[4]) ELSE 0
              /\ calls[c].of = "user" =>
                    /\ v[1] = 10 * calls[c].input.age
                    /\ v[2] = 10 <=> calls[c].input.sex = "male"
                    /\ v[3] = 10 <=> calls[c].input.sex = "female"
                    /\ v[4] = ConvertWeightToLbs(calls[c].input.current_weight,
                                                 calls[c].input.weight_unit)
                    /\ v[7] = 10 <=> calls[c].input.has_insurance
                    /\ \A i \in 1..5 :
                          v[7 + i] = 10 <=>
                              ComorbidityOrder[i] \in calls[c].input.comorbidities
              /\ calls[c].of = "experience" =>
                    /\ calls[c].input.age # <<>> => v[1] = 10 * calls[c].input.age[1]
                    /\ v[2] = 10 <=> calls[c].input.sex = <<"male">>
                    /\ v[3] = 10 <=> calls[c].input.sex = <<"female">>
                    /\ calls[c].input.beginning_weight_lbs # <<>> =>
                          v[4] = 10 * calls[c].input.beginning_weight_lbs[1]
                    /\ calls[c].input.weight_loss_percentage # <<>> =>
                          v[6] = 10 * calls[c].input.weight_loss_percentage[1]
                    /\ v[7] = 10 <=> calls[c].input.has_insurance = <<TRUE>>
                    /\ \A i \in 1..5 :
                          v[7 + i] = 10 <=>
                              /\ calls[c].input.comorbidities # <<>>
                              /\ ComorbidityOrder[i] \in calls[c].input.comorbidities[1]
    /\ \A c, d \in DOMAIN calls :
          ( /\ calls[c].of = "user"
            /\ calls[d].of = "experience"
            /\ SameValues(calls[d].input, calls[c].input) )
          => calls[d].features = calls[c].features

\* a kg profile with comorbidities and a record with its values were both
\* vectorized
C16_Witness ==
    \E c, d \in DOMAIN calls :
        /\ calls[c].of = "user"
        /\ calls[d].of = "experience"
        /\ calls[c].input.weight_unit = KG
        /\ calls[c].input.comorbidities = {"diabetes", "sleep apnea"}
        /\ SameValues(calls[d].input, calls[c].input)
        /\ calls[d].features = calls[c].features

(***************************************************************************)
(* _find_similar_experiences                                               *)
(***************************************************************************)
\* the similarity of the i-th row of the table to a profile
SimilarityOfRow(user, i) ==
    CalculateSimilarity(ExtractUserFeatures(user),
                        ExtractExperienceFeatures(experiences_df.rows[i]))

\* C17: _find_similar_experiences returns rows of the drug only, min(k, n)
\* of the drug's n rows (none when n = 0); no row left out is more similar
\* than a returned one, of equally similar rows the earlier in the table is
\* taken first, and the result is in descending similarity with equally
\* similar rows in table order
C17_NearestInCorpusOrder ==
    \A c \in DOMAIN calls :
        LET user  == calls[c].user
            res   == calls[c].result
            of    == {i \in DOMAIN experiences_df.rows :
                        experiences_df.rows[i].primary_drug = <<calls[c].drug>>}
            taken == {res[a].index : a \in DOMAIN res}
        IN  /\ taken \subseteq of
            /\ Cardinality(taken) = Len(res)
            /\ Len(res) = IF Cardinality(of) < k THEN Cardinality(of) ELSE k
            /\ of = {} => res = <<>>
            /\ \A a \in DOMAIN res :
                  /\ res[a].row = experiences_df.rows[res[a].index]
                  /\ res[a].similarity = SimilarityOfRow(user, res[a].index)
            /\ \A i \in taken, j \in of \ taken :
                  \/ SimilarityOfRow(user, j) < SimilarityOfRow(user, i)
                  \/ /\ SimilarityOfRow(user, j) = SimilarityOfRow(user, i)
                     /\ i < j
            /\ \A a, b \in DOMAIN res :
                  a < b =>
                     \/ res[a].similarity > res[b].similarity
                     \/ /\ res[a].similarity = res[b].similarity
                        /\ res[a].index < res[b].index

\* of two equally similar rows of the drug the first was returned and the
\* second left out
C17_Witness ==
    \E c \in DOMAIN calls :
        /\ Len(calls[c].result) = 1
        /\ calls[c].result[1].index = 1
        /\ Len(experiences_df.rows) = 2
        /\ experiences_df.rows[2].primary_drug = <<calls[c].drug>>
        /\ SimilarityOfRow(calls[c].user, 2) = calls[c].result[1].similarity

(***************************************************************************)
(* The aggregated side-effect list                                         *)
(***************************************************************************)
\* the entries of the neighbours' lists, in the order they are scanned
RECURSIVE Scanned(_)
Scanned(similar_experiences) ==
    IF similar_experiences = <<>> THEN <<>>
    ELSE (IF Head(similar_experiences).row.side_effects = <<>> THEN <<>>
          ELSE Head(similar_experiences).row.side_effects[1])
         \o Scanned(Tail(similar_experiences))

\* the occurrences of a normalized name among the scanned entries
OccurrencesOf(effect) ==
    {i \in DOMAIN Scanned(neighbours) :
        NormalizeName(Scanned(neighbours)[i].name) = effect}

FirstOf(effect) ==
    CHOOSE i \in OccurrencesOf(effect) : \A j \in OccurrencesOf(effect) : i <= j

ReportedEffects ==
    {NormalizeName(Scanned(neighbours)[i].name) : i \in DOMAIN Scanned(neighbours)}
        \ {<<>>}

\* C18: the side-effect list has at most 5 entries, most frequent first and
\* equally frequent ones in the order they are first seen in the scan of
\* the neighbour set; no effect left out occurs more often than a listed
\* one; an entry's severity is that of the first occurrence of its name,
\* moderate if that occurrence has none
C18_TopFiveEffects ==
    aggregated # <<>> =>
        LET out    == aggregated[1].side_effects
            listed == {out[a].effect : a \in DOMAIN out}
        IN  /\ Len(out) <= 5
            /\ Len(out) = IF Cardinality(ReportedEffects) < 5
                          THEN Cardinality(ReportedEffects) ELSE 5
            /\ listed \subseteq ReportedEffects
            /\ Cardinality(listed) = Len(out)
            /\ \A a, b \in DOMAIN out :
                  a < b =>
                     \/ Cardinality(OccurrencesOf(out[a].effect))
                           > Cardinality(OccurrencesOf(out[b].effect))
                     \/ /\ Cardinality(OccurrencesOf(out[a].effect))
                              = Cardinality(OccurrencesOf(out[b].effect))
                        /\ FirstOf(out[a].effect) < FirstOf(out[b].effect)
            /\ \A e \in listed, m \in ReportedEffects \ listed :
                  Cardinality(OccurrencesOf(m)) <= Cardinality(OccurrencesOf(e))
            /\ \A a \in DOMAIN out :
                  LET first == Scanned(neighbours)[FirstOf(out[a].effect)]
                  IN  out[a].severity = IF first.severity = <<>> THEN "moderate"
                                        ELSE first.severity[1]

\* seven effects were reported, one of them with another severity later on,
\* and five were listed
C18_Witness ==
    /\ aggregated # <<>>
    /\ Cardinality(ReportedEffects) = 7
    /\ Len(aggregated[1].side_effects) = 5
    /\ \E a \in DOMAIN aggregated[1].side_effects :
          \E i \in OccurrencesOf(aggregated[1].side_effects[a].effect) :
              Scanned(neighbours)[i].severity
                 # Scanned(neighbours)[FirstOf(aggregated[1].side_effects[a].effect)].severity

(***************************************************************************)
(* The match score and its budget component                                *)
(***************************************************************************)
\* what _aggregate_outcomes made of the records selected for a drug
OutcomesFor(user, drug) ==
    AggregateOutcomes(
        FindSimilarExperiences(user, experiences_df.rows, drug, k), user)[1]

\* the similarities of the records selected for a drug
SimilaritiesFor(user, drug) ==
    LET similar == FindSimilarExperiences(user, experiences_df.rows, drug, k)
    IN  [i \in DOMAIN similar |->
            CalculateSimilarity(ExtractUserFeatures(user),
                                ExtractExperienceFeatures(similar[i].row))]

\* C19: match_score is the integer nearest to
\* 0.40 * (avg_similarity * 100) + 0.30 * success_rate
\* + 0.20 * budget component + 0.10 * side-effect component, clamped to
\* [0, 100], where avg_similarity is the mean similarity of the selected
\* neighbours
C19_MatchScoreFormula ==
    \A c \in DOMAIN calls : \A n \in DOMAIN calls[c].result :
        LET user     == calls[c].user
            rec      == calls[c].result[n]
            outcomes == OutcomesFor(user, rec.drug)
            sims     == SimilaritiesFor(user, rec.drug)
            \* the weighted sum times 1000 * Len(sims); similarities are in
            \* ten-thousandths
            sum      == 4 * SumSeq(sims)
                        + Len(sims) * ( 300 * rec.success_rate
                                      + 200 * BudgetScore(outcomes, user)
                                      + 100 * SideEffectScore(outcomes, user) )
            top      == 100 * 1000 * Len(sims)
            clamped  == IF sum < 0 THEN 0 ELSE IF sum > top THEN top ELSE sum
        IN  /\ outcomes.avg_similarity[1] * Len(sims)
                  = SumSeq(sims) * outcomes.avg_similarity[2]
            /\ 2 * Abs(rec.match_score * 1000 * Len(sims) - clamped)
                  <= 1000 * Len(sims)

\* a recommendation whose four components all differ from one another
C19_Witness ==
    \E c \in DOMAIN calls : \E n \in DOMAIN calls[c].result :
        LET outcomes == OutcomesFor(calls[c].user, calls[c].result[n].drug)
        IN  /\ BudgetScore(outcomes, calls[c].user) = 70
            /\ SideEffectScore(outcomes, calls[c].user) = 80
            /\ calls[c].result[n].success_rate = 50
            /\ calls[c].result[n].similar_user_count = 2

\* C20: the budget component is 100 when the user has no max_budget or the
\* drug has no estimated cost; otherwise 100 when the cost is at most the
\* budget, 70 when it is above the budget and at most 1.5 times the budget,
\* and 40 when it is above that (max_budget 50 and cost 200 give 40)
C20_BudgetComponent ==
    \A c \in DOMAIN calls : \A n \in DOMAIN calls[c].result :
        LET user      == calls[c].user
            outcomes  == OutcomesFor(user, calls[c].result[n].drug)
            component == BudgetScore(outcomes, user)
            cost      == outcomes.estimated_cost[1]
            budget    == user.max_budget[1]
        IN  /\ component \in {100, 70, 40}
            /\ (user.max_budget = <<>> \/ outcomes.estimated_cost = <<>>)
                  => component = 100
            /\ (user.max_budget # <<>> /\ outcomes.estimated_cost # <<>>) =>
                  /\ cost[1] <= budget * cost[2] => component = 100
                  /\ ( /\ cost[1] > budget * cost[2]
                       /\ 2 * cost[1] <= 3 * budget * cost[2] ) => component = 70
                  /\ 2 * cost[1] > 3 * budget * cost[2] => component = 40
                  /\ (budget = 50 /\ cost[1] = 200 * cost[2]) => component = 40

\* a profile with max_budget 50 was recommended a drug of estimated cost 200
C20_Witness ==
    \E c \in DOMAIN calls : \E n \in DOMAIN calls[c].result :
        /\ calls[c].user.max_budget = <<50>>
        /\ calls[c].result[n].estimated_cost = <<200>>
        /\ BudgetScore(OutcomesFor(calls[c].user, calls[c].result[n].drug),
                       calls[c].user) = 40

(***************************************************************************)
(* The side-effect component of the match score                            *)
(***************************************************************************)
\* C21: the side-effect component is 100 when the user has no concerns or
\* the drug has no aggregated side effects; otherwise it is 100 - 20 * m,
\* not below 0, m being the number of aggregated entries whose effect name
\* is, letter for letter, one of the user's concerns (one match gives 80;
\* a concern in another letter case does not match)
C21_SideEffectComponent ==
    \A c \in DOMAIN calls : \A n \in DOMAIN calls[c].result :
        LET user      == calls[c].user
            effects   == calls[c].result[n].side_effect_probability
            component == SideEffectScore(OutcomesFor(user, calls[c].result[n].drug),
                                         user)
            m         == Cardinality({i \in DOMAIN effects :
                            \E concern \in user.side_effect_concerns :
                                concern = effects[i].effect})
        IN  /\ (user.side_effect_concerns = {} \/ effects = <<>>) => component = 100
            /\ (user.side_effect_concerns # {} /\ effects # <<>>) =>
                  /\ component = IF 100 - 20 * m > 0 THEN 100 - 20 * m ELSE 0
                  /\ m = 1 => component = 80
            /\ \A i \in DOMAIN effects : effects[i].effect = StrTitle(effects[i].effect)

\* a user concerned by "nausea" in lower case was recommended a drug whose
\* side effects include "Nausea", and the component stayed at 100
C21_Witness ==
    \E c \in DOMAIN calls : \E n \in DOMAIN calls[c].result :
        /\ calls[c].user.side_effect_concerns = {NauseaLower}
        /\ \E i \in DOMAIN calls[c].result[n].side_effect_probability :
              calls[c].result[n].side_effect_probability[i].effect = Nausea
        /\ SideEffectScore(OutcomesFor(calls[c].user, calls[c].result[n].drug),
                           calls[c].user) = 100

(***************************************************************************)
(* The cost notes among the pros and cons                                  *)
(***************************************************************************)
CostNotes == {"Good insurance coverage",
              "Relatively affordable without insurance",
              "High out-of-pocket cost"}

\* how many times a note appears in a sequence of notes
TimesNoted(notes, text) == Cardinality({i \in DOMAIN notes : notes[i][1] = text})

\* C22: of "Good insurance coverage", "Relatively affordable without
\* insurance" and "High out-of-pocket cost" at most one is given, none when
\* the drug has no estimated cost, and "High out-of-pocket cost" exactly
\* when the estimated cost is above 1000
C22_CostNotesExclusive ==
    \A c \in DOMAIN calls : \A n \in DOMAIN calls[c].result :
        LET rec  == calls[c].result[n]
            cost == OutcomesFor(calls[c].user, rec.drug).estimated_cost
            given == TimesNoted(rec.pros, "Good insurance coverage")
                     + TimesNoted(rec.pros, "Relatively affordable without insurance")
                     + TimesNoted(rec.cons, "High out-of-pocket cost")
        IN  /\ given <= 1
            /\ \A text \in CostNotes :
                  TimesNoted(rec.pros, text) + TimesNoted(rec.cons, text) <= given
            /\ cost = <<>> => given = 0
            /\ TimesNoted(rec.cons, "High out-of-pocket cost") = 1
                  <=> (cost # <<>> /\ cost[1][1] > 1000 * cost[1][2])

\* an insured user was warned of a cost just above 1000, the median of the
\* costs of two records
C22_Witness ==
    \E c \in DOMAIN calls : \E n \in DOMAIN calls[c].result :
        /\ calls[c].user.has_insurance
        /\ TimesNoted(calls[c].result[n].cons, "High out-of-pocket cost") = 1
        /\ OutcomesFor(calls[c].user, calls[c].result[n].drug).estimated_cost
              = << <<2001, 2>> >>

(***************************************************************************)
(* Weight units in _extract_user_features                                  *)
(***************************************************************************)
\* a weight in tenths of a kg, times 2.20462, to a tenth of a lb
TimesKgFactor(weight) == RoundHalfEven(weight * 220462, 100000)

\* the goal percentage of the vector, from weights in tenths of a lb
GoalPct(weight_lbs, goal_lbs) ==
    RoundHalfEven((weight_lbs - goal_lbs) * 1000, weight_lbs)

\* the lbs profile whose weights are the profile's weights times 2.20462
InPounds(user) ==
    [user EXCEPT !.current_weight = TimesKgFactor(@),
                 !.goal_weight = TimesKgFactor(@),
                 !.weight_unit = LBS]

\* C23: a profile whose weight_unit is kg, in any letter case, is vectorized
\* with its weights times 2.20462 (100 kg is about 220.46 lb) in the weight,
\* BMI and goal features; any other unit string leaves the weights as they
\* are; and the vector of a kg profile is the vector of the lbs profile
\* whose weights are the kg weights times 2.20462
C23_KgToPounds ==
    \A c \in DOMAIN calls :
        calls[c].of = "user" =>
            LET user == calls[c].input
                v    == calls[c].features
            IN  /\ user.weight_unit \in KgSpellings =>
                      /\ v[4] = TimesKgFactor(user.current_weight)
                      /\ user.current_weight = 1000 => Abs(10 * v[4] - 22046) <= 5
                      /\ v[5] = CalculateBmi(TimesKgFactor(user.current_weight))
                      /\ v[6] = GoalPct(TimesKgFactor(user.current_weight),
                                        TimesKgFactor(user.goal_weight))
                      /\ v = ExtractUserFeatures(InPounds(user))
                /\ user.weight_unit \notin KgSpellings =>
                      /\ v[4] = user.current_weight
                      /\ v[5] = CalculateBmi(user.current_weight)
                      /\ v[6] = GoalPct(user.current_weight, user.goal_weight)

\* a profile of 100 kg, its unit written in capitals, was vectorized
C23_Witness ==
    \E c \in DOMAIN calls :
        /\ calls[c].of = "user"
        /\ calls[c].input.weight_unit = <<"K", "G">>
        /\ calls[c].input.current_weight = 1000
        /\ calls[c].features[4] = 2205

(***************************************************************************)
(* The number of similar users, and the drugs recommended                  *)
(***************************************************************************)
Smaller(a, b) == IF a < b THEN a ELSE b

\* the records of a drug in the table
RecordsFor(drug) == CountOf(experiences_df.rows, drug)

\* the recommendations of a result that are for a drug
RecommendationsFor(result, drug) == {n \in DOMAIN result : result[n].drug = drug}

\* C24: similar_user_count of a recommendation is min(k_neighbors, number of
\* records of its drug) and never above k_neighbors, and a recommender with
\* k_neighbors < 30 never gives the pro "Strong data from N similar users"
C24_SimilarUserCount ==
    \A c \in DOMAIN calls : \A n \in DOMAIN calls[c].result :
        LET rec == calls[c].result[n]
        IN  /\ rec.similar_user_count = Smaller(k, RecordsFor(rec.drug))
            /\ rec.similar_user_count <= k
            /\ k < 30 => TimesNoted(rec.pros, "Strong data from similar users") = 0
            /\ TimesNoted(rec.pros, "Strong data from similar users") = 1
                  <=> rec.similar_user_count >= 30

\* the default recommender on a drug with 30 or more records: 15 similar
\* users, and no "Strong data" among the pros
C24_Witness ==
    \E c \in DOMAIN calls : \E n \in DOMAIN calls[c].result :
        /\ k = DefaultK
        /\ RecordsFor(calls[c].result[n].drug) >= 30
        /\ calls[c].result[n].similar_user_count = DefaultK
        /\ TimesNoted(calls[c].result[n].pros, "Strong data from similar users") = 0

\* C25: with k_neighbors >= min_similar_users >= 1 and well-formed records,
\* the drugs recommended are exactly the drugs with at least
\* min_similar_users records, each recommended once
C25_ExactlyTheEligibleDrugs ==
    (k >= min_similar_users /\ min_similar_users >= 1) =>
        \A c \in DOMAIN calls :
            \A drug \in Drugs :
                Cardinality(RecommendationsFor(calls[c].result, drug))
                    = IF RecordsFor(drug) >= min_similar_users THEN 1 ELSE 0

\* k_neighbors = min_similar_users = 5: a drug with exactly 5 records was
\* recommended and one with fewer was not
C25_Witness ==
    /\ k = 5
    /\ min_similar_users = 5
    /\ \E c \in DOMAIN calls :
          /\ RecordsFor("Wegovy") = 5
          /\ RecordsFor("Ozempic") = 4
          /\ DrugsOf(calls[c].result) = {"Wegovy"}

\* C26: a recommender built with k_neighbors < min_similar_users returns an
\* empty list from recommend, whatever the table and the profile
C26_EmptyBelowThreshold ==
    k < min_similar_users =>
        \A c \in DOMAIN calls :
            /\ calls[c].raised = ""
            /\ calls[c].result = <<>>

(***************************************************************************)
(* The experiences cache                                                   *)
(***************************************************************************)
\* the i-th call is a fetch_experiences
IsFetch(i) == calls[i].op = "fetch_experiences"

\* the i-th call is a fetch_experiences that queried and returned a table
IsSuccessfulQuery(i) == IsFetch(i) /\ calls[i].queried /\ calls[i].raised = ""

\* the cache as the calls before the i-th leave it: empty at the start and
\* after a clear_cache, the table of the query that returned one otherwise
CacheBefore(i) ==
    LET setting == {j \in 1..(i - 1) :
                      calls[j].op = "clear_cache" \/ IsSuccessfulQuery(j)}
    IN  IF setting = {} THEN <<>>
        ELSE LET last == CHOOSE j \in setting : \A h \in setting : h <= j
             IN  IF calls[last].op = "clear_cache" THEN <<>> ELSE calls[last].table

C28_NestedAtLeastTwo ==
    \A c \in DOMAIN calls :
        calls[c].comment \in Chain =>
            LET above == ParentOf(calls[c].comment)
            IN  /\ above = Post => calls[c].depth = 1
                /\ above \in Chain => calls[c].depth >= 2

\* C29: calculate_comment_depth always returns, and returns a depth from 1
\* to 52, on chains of any length and on cyclic chains: the loop stops once
\* it has gone around more than MAX_COMMENT_DEPTH times, and an exception
\* in the walk gives depth 1
C29_TerminatesWithin52 ==
    /\ [](\A c \in DOMAIN calls : calls[c].depth \in 1..52)
    /\ [](iterations <= MAX_COMMENT_DEPTH + 1)
    /\ [][pc = "except" => (pc' = "return" /\ depth' = 1)]_vars
    /\ [][pc = "return" => calls' = <<[comment |-> comment, depth |-> 1 + iterations]>>
                           \/ calls' = <<[comment |-> comment, depth |-> 1]>>]_vars
    /\ \A c \in Comments : (comment = c) ~> (\E d \in 1..52 :
                                calls = <<[comment |-> c, depth |-> d]>>)

\* the call on a comment of the cyclic chain returned 52
C29_Witness ==
    calls = <<[comment |-> <<"loop", 1>>, depth |-> 52]>>

(***************************************************************************)
(* should_process_content                                                  *)
(***************************************************************************)
\* the content holds a keyword as a whole word, in any letter case
HasKeyword(content) == \E keyword \in DRUG_KEYWORDS : PatternSearch(keyword, content)

\* C30: for a subreddit listed in NON_DRUG_SUBREDDITS should_process_content
\* returns True only if the content holds a keyword of DRUG_KEYWORDS as a
\* whole word, in any letter case; for a subreddit not listed it returns
\* True whatever the content
C30_ListedSubredditsFiltered ==
    \A c \in DOMAIN calls :
        /\ calls[c].subreddit \in NON_DRUG_SUBREDDITS =>
              (calls[c].result => HasKeyword(calls[c].content))
        /\ calls[c].subreddit \notin NON_DRUG_SUBREDDITS => calls[c].result

====
